---- MODULE Spec2Model ----
(***************************************************************************)
(* A model of the career assistant's job recommendation scoring engine:    *)
(* UserProfile construction (user_profile.py), the SkillMatcher            *)
(* (skill_matcher.py) and the JobRecommendationEngine                      *)
(* (recommendation_engine.py), with CareerAssistant.get_recommendations    *)
(* (career_assistant.py) as the caller that leaves top_k unset.            *)
(*                                                                         *)
(* Python strings are TLA+ strings, over the characters U+0000 to U+00FF    *)
(* that a TLA+ string holds; an Optional value is the empty tuple          *)
(* (None) or a one-element tuple.  Scores are IEEE binary64 values, kept   *)
(* as <<sign, mantissa, exponent>> and computed with the code's operations *)
(* in the code's order, each rounded to nearest even.                      *)
(***************************************************************************)
EXTENDS Integers, Sequences, FiniteSets, TLC

VARIABLES
    args,      \* the arguments of the UserProfile(...) call, None before it
    profile,   \* the UserProfile constructed, None before that and on failure
    raised,    \* the exception the last call raised, "none" when it returned
    jobs,      \* the job list passed to the last scoring or ranking call
    top_k,     \* the top_k passed to the last ranking call, None when left unset
    recs,      \* the list the last ranking call returned
    ret,       \* the value the last scoring call returned, None when there is none
    op,        \* the call made last; "start" before any
    engine,    \* the fields of the engine that scoring reads, set by __init__
    workers,   \* for each worker of a pool: the job it scores, its position, its locals
    scored,    \* for each job of a pool's list: None, or the score and analysis it got
    loader,    \* the OCR backends importable and the CertificateDataLoader, None before it
    company_database,  \* JobAnalyzer.company_database: the CompanyInsight under each key
    insights   \* the insights that get_company_insight returned, oldest first

vars ==
    <<args, profile, raised, jobs, top_k, recs, ret, op, engine, workers, scored,
      loader, company_database, insights>>

\* the variables that only a pool of scoring workers uses
pool == <<engine, workers, scored>>

\* the variables of the certificate loader and of the job analyzer
aside == <<loader, company_database, insights>>

-----------------------------------------------------------------------------
(* Optional values *)

None == <<>>

Some(x) == <<x>>

\* Python truthiness of an Optional[str]: neither None nor the empty string
Truthy(o) == o # None /\ o[1] # ""

\* Python truthiness of an Optional[Dict] that holds min and max when present
TruthyRange(o) == o # None

-----------------------------------------------------------------------------
(* Integers *)

Abs(n) == IF n < 0 THEN -n ELSE n

-----------------------------------------------------------------------------
(* Natural numbers of any size: the limbs in base 2^15, the lowest first,    *)
(* without leading zero limbs; <<>> is zero.                                 *)

Base == 32768

LimbBits == 15

Limb(a, i) == IF i <= Len(a) THEN a[i] ELSE 0

RECURSIVE BigTrim(_)
BigTrim(a) ==
    IF a # <<>> /\ a[Len(a)] = 0 THEN BigTrim(SubSeq(a, 1, Len(a) - 1)) ELSE a

RECURSIVE BigOfNat(_)
BigOfNat(n) == IF n = 0 THEN <<>> ELSE <<n % Base>> \o BigOfNat(n \div Base)

\* a + b + c from limb i on, c the carry
RECURSIVE BigAddFrom(_, _, _, _)
BigAddFrom(a, b, i, c) ==
    IF i > Len(a) /\ i > Len(b) THEN (IF c = 0 THEN <<>> ELSE <<c>>)
    ELSE <<(Limb(a, i) + Limb(b, i) + c) % Base>>
         \o BigAddFrom(a, b, i + 1, (Limb(a, i) + Limb(b, i) + c) \div Base)

BigAdd(a, b) == BigAddFrom(a, b, 1, 0)

\* a - b - c from limb i on, for a >= b, c the borrow
RECURSIVE BigSubFrom(_, _, _, _)
BigSubFrom(a, b, i, c) ==
    IF i > Len(a) THEN <<>>
    ELSE <<(a[i] - Limb(b, i) - c + Base) % Base>>
         \o BigSubFrom(a, b, i + 1, IF a[i] - Limb(b, i) - c < 0 THEN 1 ELSE 0)

BigSub(a, b) == BigTrim(BigSubFrom(a, b, 1, 0))

RECURSIVE BigCmpFrom(_, _, _)
BigCmpFrom(a, b, i) ==
    IF i = 0 THEN 0
    ELSE IF a[i] > b[i] THEN 1
    ELSE IF a[i] < b[i] THEN -1
    ELSE BigCmpFrom(a, b, i - 1)

\* -1, 0 or 1 as a < b, a = b or a > b
BigCmp(a, b) ==
    IF Len(a) > Len(b) THEN 1
    ELSE IF Len(a) < Len(b) THEN -1
    ELSE BigCmpFrom(a, b, Len(a))

\* a * m + c from limb i on, for 0 <= m < Base
RECURSIVE BigMulSmallFrom(_, _, _, _)
BigMulSmallFrom(a, m, i, c) ==
    IF i > Len(a) THEN (IF c = 0 THEN <<>> ELSE <<c>>)
    ELSE <<(a[i] * m + c) % Base>> \o BigMulSmallFrom(a, m, i + 1, (a[i] * m + c) \div Base)

BigMulSmall(a, m) == IF m = 0 THEN <<>> ELSE BigMulSmallFrom(a, m, 1, 0)

RECURSIVE BigMulFrom(_, _, _)
BigMulFrom(a, b, j) ==
    IF j > Len(b) THEN <<>>
    ELSE BigAdd(BigMulSmall(a, b[j]), <<0>> \o BigMulFrom(a, b, j + 1))

BigMul(a, b) == BigTrim(BigMulFrom(a, b, 1))

\* <<a div d, a mod d>> for 0 < d < Base, from limb i down, rem carried in
RECURSIVE BigDivSmallFrom(_, _, _, _)
BigDivSmallFrom(a, d, i, rem) ==
    IF i = 0 THEN <<<<>>, rem>>
    ELSE LET rest == BigDivSmallFrom(a, d, i - 1, (rem * Base + a[i]) % d)
         IN  <<Append(rest[1], (rem * Base + a[i]) \div d), rest[2]>>

BigDivSmall(a, d) ==
    LET qr == BigDivSmallFrom(a, d, Len(a), 0)
    IN  <<BigTrim(qr[1]), qr[2]>>

RECURSIVE ZeroLimbs(_)
ZeroLimbs(n) == IF n = 0 THEN <<>> ELSE <<0>> \o ZeroLimbs(n - 1)

\* a * 2^k
BigShl(a, k) ==
    IF a = <<>> THEN <<>>
    ELSE ZeroLimbs(k \div LimbBits) \o BigMulSmall(a, 2 ^ (k % LimbBits))

\* a div 2^k
BigShr(a, k) ==
    IF k \div LimbBits >= Len(a) THEN <<>>
    ELSE BigDivSmall(SubSeq(a, k \div LimbBits + 1, Len(a)), 2 ^ (k % LimbBits))[1]

\* bit k of a, bit 0 the lowest
BigBit(a, k) == (Limb(a, k \div LimbBits + 1) \div (2 ^ (k % LimbBits))) % 2

\* a mod 2^k # 0
BigLowNonzero(a, k) ==
    \/ \E i \in 1..(k \div LimbBits) : Limb(a, i) # 0
    \/ Limb(a, k \div LimbBits + 1) % (2 ^ (k % LimbBits)) # 0

RECURSIVE BitLen(_)
BitLen(n) == IF n = 0 THEN 0 ELSE 1 + BitLen(n \div 2)

BigBitLen(a) == IF a = <<>> THEN 0 ELSE (Len(a) - 1) * LimbBits + BitLen(a[Len(a)])

\* the number of zero bits at the low end of a # 0
RECURSIVE BigLowZeros(_, _)
BigLowZeros(a, k) == IF BigBit(a, k) = 1 THEN k ELSE BigLowZeros(a, k + 1)

\* the bits k-1 .. 0 of the limb x brought down into rem, one at a time:
\* <<the quotient bits as a number, the remainder>>
RECURSIVE BigDivBits(_, _, _, _, _)
BigDivBits(rem, d, x, k, q) ==
    IF k = 0 THEN <<q, rem>>
    ELSE LET r2 == BigAddFrom(rem, rem, 1, (x \div (2 ^ (k - 1))) % 2)
         IN  IF BigCmp(r2, d) >= 0
             THEN BigDivBits(BigSub(r2, d), d, x, k - 1, 2 * q + 1)
             ELSE BigDivBits(r2, d, x, k - 1, 2 * q)

RECURSIVE BigDivLongFrom(_, _, _, _)
BigDivLongFrom(a, d, i, rem) ==
    IF i = 0 THEN <<<<>>, rem>>
    ELSE LET qr == BigDivBits(rem, d, a[i], LimbBits, 0)
             rest == BigDivLongFrom(a, d, i - 1, qr[2])
         IN  <<Append(rest[1], qr[1]), rest[2]>>

\* <<a div d, a mod d # 0>> for d # 0
BigDivMod(a, d) ==
    IF Len(d) = 1
    THEN LET qr == BigDivSmall(a, d[1]) IN <<qr[1], qr[2] # 0>>
    ELSE LET qr == BigDivLongFrom(a, d, Len(a), <<>>) IN <<BigTrim(qr[1]), qr[2] # <<>>>>

-----------------------------------------------------------------------------
(* Python floats: IEEE 754 binary64, round to nearest, ties to even.  A      *)
(* float is <<sign, mantissa, exponent>>, its value sign * mantissa *        *)
(* 2^exponent with an odd mantissa of 53 bits at most; zero is <<0, <<>>, 0>>. *)
(* The exponent range is not modelled: no value here overflows or is         *)
(* subnormal.                                                                *)

MantissaBits == 53

FZero == <<0, <<>>, 0>>

\* sign * n * 2^e for n of 53 bits at most, with the low zero bits taken out
FExact(sign, n, e) ==
    IF n = <<>> THEN FZero
    ELSE LET z == BigLowZeros(n, 0) IN <<sign, BigShr(n, z), e + z>>

\* the float nearest to sign * (n + f) * 2^e, where 0 <= f < 1 and f # 0 iff
\* sticky; with sticky, n has more than 53 bits
FRound(sign, n, e, sticky) ==
    IF BigBitLen(n) <= MantissaBits THEN FExact(sign, n, e)
    ELSE LET k == BigBitLen(n) - MantissaBits
             q == BigShr(n, k)
             up == BigBit(n, k - 1) = 1
                   /\ (sticky \/ BigLowNonzero(n, k - 1) \/ q[1] % 2 = 1)
         IN  FExact(sign, IF up THEN BigAdd(q, <<1>>) ELSE q, e + k)

\* float(n) of an int n, |n| < 2^31
F(n) == IF n = 0 THEN FZero ELSE FExact(IF n < 0 THEN -1 ELSE 1, BigOfNat(IF n < 0 THEN -n ELSE n), 0)

FMul(a, b) ==
    IF a[1] = 0 \/ b[1] = 0 THEN FZero
    ELSE FRound(a[1] * b[1], BigMul(a[2], b[2]), a[3] + b[3], FALSE)

\* a / b for b # 0
FDiv(a, b) ==
    IF a[1] = 0 THEN FZero
    ELSE LET k == IF BigBitLen(b[2]) + 55 > BigBitLen(a[2])
                  THEN BigBitLen(b[2]) + 55 - BigBitLen(a[2]) ELSE 0
             qr == BigDivMod(BigShl(a[2], k), b[2])
         IN  FRound(a[1] * b[1], qr[1], a[3] - b[3] - k, qr[2])

\* -1, 0 or 1 as |a| < |b|, |a| = |b| or |a| > |b|, for a, b # 0
FCmpMag(a, b) ==
    IF BigBitLen(a[2]) + a[3] > BigBitLen(b[2]) + b[3] THEN 1
    ELSE IF BigBitLen(a[2]) + a[3] < BigBitLen(b[2]) + b[3] THEN -1
    ELSE IF a[3] >= b[3] THEN BigCmp(BigShl(a[2], a[3] - b[3]), b[2])
    ELSE BigCmp(a[2], BigShl(b[2], b[3] - a[3]))

\* -1, 0 or 1 as a < b, a = b or a > b
FCmp(a, b) ==
    IF a[1] # b[1] THEN (IF a[1] < b[1] THEN -1 ELSE 1)
    ELSE IF a[1] = 0 THEN 0
    ELSE a[1] * FCmpMag(a, b)

FLe(a, b) == FCmp(a, b) <= 0

FLt(a, b) == FCmp(a, b) < 0

\* (|a| + |b|) / 2^e and (|a| - |b|) / 2^e, exactly, for e below both exponents
FAddMag(a, b, e) ==
    BigAdd(BigShl(a[2], a[3] - e), BigShl(b[2], b[3] - e))

FSubMag(a, b, e) ==
    BigSub(BigShl(a[2], a[3] - e), BigShl(b[2], b[3] - e))

FAdd(a, b) ==
    IF a[1] = 0 THEN b
    ELSE IF b[1] = 0 THEN a
    ELSE LET e == IF a[3] <= b[3] THEN a[3] ELSE b[3]
         IN  IF a[1] = b[1] THEN FRound(a[1], FAddMag(a, b, e), e, FALSE)
             ELSE IF FCmpMag(a, b) = 0 THEN FZero
             ELSE IF FCmpMag(a, b) > 0 THEN FRound(a[1], FSubMag(a, b, e), e, FALSE)
             ELSE FRound(b[1], FSubMag(b, a, e), e, FALSE)

\* min(a, b) of Python: b only when b < a
FMin(a, b) == IF FLt(b, a) THEN b ELSE a

\* a literal of the source with the decimal value n/d, as 0.35 is 35/100
Lit(n, d) == FDiv(F(n), F(d))

\* |a| rounded to an integer, ties to even, as a natural number
FRoundedMag(a) ==
    IF a[1] = 0 THEN <<>>
    ELSE IF a[3] >= 0 THEN BigShl(a[2], a[3])
    ELSE LET k == -a[3]
             q == BigShr(a[2], k)
             up == BigBit(a[2], k - 1) = 1
                   /\ (BigLowNonzero(a[2], k - 1) \/ BigBit(q, 0) = 1)
         IN  IF up THEN BigAdd(q, <<1>>) ELSE q

\* the value of a natural number below 2^30
NatOfBig(a) == Limb(a, 1) + Base * Limb(a, 2)

-----------------------------------------------------------------------------
(* Python string operations *)

CharAt(s, i) == SubSeq(s, i, i)

CharsOf(s) == {CharAt(s, i) : i \in 1..Len(s)}

\* the characters that str.lower() changes: A-Z, U+00C0-U+00D6, U+00D8-U+00DE
UpperChars == "ABCDEFGHIJKLMNOPQRSTUVWXYZÀÁÂÃÄÅÆÇÈÉÊËÌÍÎÏÐÑÒÓÔÕÖØÙÚÛÜÝÞ"

\* what str.lower() makes of them, place by place
LowerChars == "abcdefghijklmnopqrstuvwxyzàáâãäåæçèéêëìíîïðñòóôõöøùúûüýþ"

\* the other characters of \w, that is of str.isalnum(): U+00AA, U+00B2,
\* U+00B3, U+00B5, U+00B9, U+00BA, U+00BC-U+00BE, U+00DF, U+00FF
OtherWordChars == "ª²³µ¹º¼½¾ßÿ"

\* the characters of str.isspace() that have no escape: U+000B,
\* U+001C-U+001F, U+0085, U+00A0
OtherSpaceChars == " "

\* U+00A0
NoBreakSpace == CharAt(OtherSpaceChars, Len(OtherSpaceChars))

\* str.isspace(): what strip() trims, split() cuts at and \s matches
Whitespace == {" ", "\t", "\n", "\r", "\f"} \cup CharsOf(OtherSpaceChars)

Digits == "0123456789"

\* 1-based position of character c in string s, 0 when absent
RECURSIVE IndexOf(_, _, _)
IndexOf(c, s, i) ==
    IF i > Len(s) THEN 0
    ELSE IF CharAt(s, i) = c THEN i ELSE IndexOf(c, s, i + 1)

IsDigit(c) == IndexOf(c, Digits, 1) > 0

DigitVal(c) == IndexOf(c, Digits, 1) - 1

LowerTable == [c \in CharsOf(UpperChars) |-> CharAt(LowerChars, IndexOf(c, UpperChars, 1))]

LowerChar(c) == IF c \in DOMAIN LowerTable THEN LowerTable[c] ELSE c

\* str.lower()
RECURSIVE Lower(_)
Lower(s) ==
    IF Len(s) = 0 THEN ""
    ELSE LowerChar(CharAt(s, 1)) \o Lower(SubSeq(s, 2, Len(s)))

RECURSIVE LStrip(_)
LStrip(s) ==
    IF Len(s) > 0 /\ CharAt(s, 1) \in Whitespace
    THEN LStrip(SubSeq(s, 2, Len(s))) ELSE s

RECURSIVE RStrip(_)
RStrip(s) ==
    IF Len(s) > 0 /\ CharAt(s, Len(s)) \in Whitespace
    THEN RStrip(SubSeq(s, 1, Len(s) - 1)) ELSE s

\* str.strip()
Strip(s) == RStrip(LStrip(s))

\* whether sub occurs in s at position i
StartsAt(s, sub, i) ==
    i + Len(sub) - 1 <= Len(s) /\ SubSeq(s, i, i + Len(sub) - 1) = sub

\* Python's  sub in s
Contains(s, sub) == \E i \in 1..(Len(s) + 1) : StartsAt(s, sub, i)

\* str.replace(c, "") for a single character c
RECURSIVE RemoveChar(_, _)
RemoveChar(s, c) ==
    IF Len(s) = 0 THEN ""
    ELSE (IF CharAt(s, 1) = c THEN "" ELSE CharAt(s, 1))
         \o RemoveChar(SubSeq(s, 2, Len(s)), c)

\* str.split(c) for a single character c: the segments between occurrences
RECURSIVE SplitFrom(_, _, _, _)
SplitFrom(s, c, i, cur) ==
    IF i > Len(s) THEN <<cur>>
    ELSE IF CharAt(s, i) = c THEN <<cur>> \o SplitFrom(s, c, i + 1, "")
    ELSE SplitFrom(s, c, i + 1, cur \o CharAt(s, i))

Split(s, c) == SplitFrom(s, c, 1, "")

\* int(s): a ValueError unless s is a non-empty run of digits
IsInt(s) == Len(s) > 0 /\ \A i \in 1..Len(s) : IsDigit(CharAt(s, i))

RECURSIVE ParseInt(_)
ParseInt(s) ==
    IF Len(s) = 0 THEN 0
    ELSE 10 * ParseInt(SubSeq(s, 1, Len(s) - 1)) + DigitVal(CharAt(s, Len(s)))

-----------------------------------------------------------------------------
(* user_profile.py: UserProfile *)

valid_experience_levels == <<"entry", "mid", "senior", "executive">>

InSeq(x, seq) == \E i \in 1..Len(seq) : seq[i] = x

\* [x.strip().lower() for x in xs if x.strip()]
RECURSIVE CleanList(_)
CleanList(xs) ==
    IF xs = <<>> THEN <<>>
    ELSE (IF Strip(Head(xs)) # "" THEN <<Lower(Strip(Head(xs)))>> ELSE <<>>)
         \o CleanList(Tail(xs))

\* the membership test of line 29 without its lower(): a case-sensitive variant
ExperienceLevelExact(level) == InSeq(level, valid_experience_levels)

ExperienceLevelValid(level) == InSeq(Lower(level), valid_experience_levels)

\* UserProfile(...) with __post_init__: the constructed profile, or the
\* exception raised
post_init(skills, experience_level, preferred_roles, location, salary_range, work_type) ==
    IF ~ExperienceLevelValid(experience_level)
    THEN [exc |-> "ValueError", profile |-> None]
    ELSE [exc |-> "none",
          profile |-> Some([skills |-> CleanList(skills),
                            experience_level |-> Lower(experience_level),
                            preferred_roles |-> CleanList(preferred_roles),
                            location |-> location,
                            salary_range |-> salary_range,
                            work_type |-> work_type])]

-----------------------------------------------------------------------------
(* job_scraper.py: JobPosting *)

JobPosting(title, company, location, description, skills_required, experience_level, salary_range, work_type) ==
    [title |-> title, company |-> company, location |-> location,
     description |-> description, skills_required |-> skills_required,
     experience_level |-> experience_level, salary_range |-> salary_range,
     work_type |-> work_type]

-----------------------------------------------------------------------------
(* The inputs of the recommendation request *)

MaxJobs == 6

MaxTopK == 7

NegTopK == 2

SalaryRange(lo, hi) == Some([min |-> lo, max |-> hi])

ProfileArgs(skills, experience_level, preferred_roles, location, salary_range, work_type) ==
    [skills |-> skills, experience_level |-> experience_level,
     preferred_roles |-> preferred_roles, location |-> location,
     salary_range |-> salary_range, work_type |-> work_type]

\* the constructor arguments tried in a request
ProfileInputs ==
    { ProfileArgs(<<"Python", " SQL ", "">>, "Mid", <<"Data Scientist">>,
                  Some("San Francisco, CA"), SalaryRange(80000, 120000), Some("hybrid")),
      ProfileArgs(<<"js", "react">>, "senior", <<"Frontend Developer", "Data Engineer">>,
                  None, SalaryRange(100000, 100000), Some("remote")),
      ProfileArgs(<<>>, "entry", <<>>, Some("Austin, TX"), None, None),
      ProfileArgs(<<"sql">>, "ENTRY", <<"Data Analyst">>, Some("new york"),
                  SalaryRange(120000, 80000), None),
      ProfileArgs(<<"python">>, "junior", <<"Data Scientist">>, None, None, None) }

JobCatalog ==
    << JobPosting("Senior Data Scientist", "Tech Corp", "San Francisco, CA",
                  "Python, ML and SQL", <<"python", "machine learning", "sql">>,
                  Some("senior"), Some("$90,000 - $130,000"), Some("hybrid")),
       JobPosting("Frontend Developer", "Web Co", "Remote",
                  "React and JS", <<"JavaScript", "React.js">>,
                  Some("mid"), Some("$100,000 - $150,000"), Some("remote")),
       JobPosting("Data Analyst", "Finance Co", "New York, NY",
                  "SQL reports", <<"sql", "excel">>,
                  Some("entry"), Some("$60,000 - $70,000"), Some("onsite")),
       JobPosting("Data Analyst", "Finance Two", "New York, NY",
                  "SQL reports", <<"sql", "excel">>,
                  Some("entry"), Some("$60,000 - $70,000"), Some("onsite")),
       JobPosting("Office Clerk", "Bank", "", "Filing", <<>>, None, None, None) >>

\* the job list of length n that starts at catalog entry start and steps by stride
JobList(start, stride, n) ==
    [i \in 1..n |-> JobCatalog[((start - 1 + (i - 1) * stride) % Len(JobCatalog)) + 1]]

JobLists ==
    {JobList(start, stride, n) :
        start \in 1..Len(JobCatalog), stride \in 1..2, n \in 0..MaxJobs}

TopKs == {Some(k) : k \in (0 - NegTopK)..MaxTopK} \cup {None}

\* the profiles that the constructor arguments yield
RequestProfiles ==
    {post_init(a.skills, a.experience_level, a.preferred_roles,
               a.location, a.salary_range, a.work_type).profile[1] :
        a \in {x \in ProfileInputs : ExperienceLevelValid(x.experience_level)}}

-----------------------------------------------------------------------------
(* skill_matcher.py: SkillMatcher *)

\* line 45
fuzzy_threshold == Lit(8, 10)

\* the literal of _load_skill_synonyms, in source order
synonyms ==
    << [main |-> "javascript", syns |-> {"js", "ecmascript", "node.js", "nodejs"}],
       [main |-> "python", syns |-> {"py", "python3", "python2"}],
       [main |-> "c++", syns |-> {"cpp", "c plus plus", "cplusplus"}],
       [main |-> "c#", syns |-> {"csharp", "c sharp", ".net", "dotnet"}],
       [main |-> "postgresql", syns |-> {"postgres", "psql"}],
       [main |-> "mysql", syns |-> {"my sql"}],
       [main |-> "mongodb", syns |-> {"mongo", "nosql"}],
       [main |-> "sql", syns |-> {"structured query language", "database"}],
       [main |-> "react", syns |-> {"reactjs", "react.js"}],
       [main |-> "angular", syns |-> {"angularjs", "angular.js"}],
       [main |-> "vue", syns |-> {"vuejs", "vue.js"}],
       [main |-> "node.js", syns |-> {"nodejs", "node", "javascript"}],
       [main |-> "aws", syns |-> {"amazon web services", "amazon aws"}],
       [main |-> "gcp", syns |-> {"google cloud platform", "google cloud"}],
       [main |-> "azure", syns |-> {"microsoft azure"}],
       [main |-> "machine learning", syns |-> {"ml", "artificial intelligence", "ai"}],
       [main |-> "data science", syns |-> {"data analysis", "analytics"}],
       [main |-> "pandas", syns |-> {"python pandas"}],
       [main |-> "scikit-learn", syns |-> {"sklearn", "scikit learn"}],
       [main |-> "tensorflow", syns |-> {"tf"}],
       [main |-> "pytorch", syns |-> {"torch"}],
       [main |-> "git", syns |-> {"version control", "github", "gitlab"}],
       [main |-> "docker", syns |-> {"containerization", "containers"}],
       [main |-> "kubernetes", syns |-> {"k8s", "container orchestration"}],
       [main |-> "agile", syns |-> {"scrum", "kanban"}],
       [main |-> "devops", syns |-> {"ci/cd", "continuous integration"}] >>

\* one turn of the loop of lines 93-99: the main skill's entry is assigned,
\* each synonym's entry is created if absent and extended
ExpandEntry(expanded, main_skill, synonyms_set) ==
    LET e1 == [k \in (DOMAIN expanded) \cup {main_skill} |->
                  IF k = main_skill THEN synonyms_set ELSE expanded[k]]
    IN  [k \in (DOMAIN e1) \cup synonyms_set |->
            IF k \in synonyms_set
            THEN (IF k \in DOMAIN e1 THEN e1[k] ELSE {})
                 \cup {main_skill} \cup (synonyms_set \ {k})
            ELSE e1[k]]

RECURSIVE ExpandFrom(_, _)
ExpandFrom(expanded, i) ==
    IF i > Len(synonyms) THEN expanded
    ELSE ExpandFrom(ExpandEntry(expanded, synonyms[i].main, synonyms[i].syns), i + 1)

EmptyDict == [k \in {} |-> {}]

\* self.skill_synonyms
skill_synonyms == ExpandFrom(EmptyDict, 1)

\* \w of the regular expressions: str.isalnum() or "_"
WordChars == CharsOf(Digits \o "_" \o UpperChars \o LowerChars \o OtherWordChars)

IsWordChar(c) == c \in WordChars

\* re.sub(r'[^\w\s+#.]', '', s)
RECURSIVE RemoveSpecial(_)
RemoveSpecial(s) ==
    IF Len(s) = 0 THEN ""
    ELSE LET c == CharAt(s, 1)
         IN  (IF IsWordChar(c) \/ c \in Whitespace \/ c \in {"+", "#", "."}
              THEN c ELSE "")
             \o RemoveSpecial(SubSeq(s, 2, Len(s)))

\* \b before position i of s (between s[i-1] and s[i])
Boundary(s, i) ==
    LET before == i > 1 /\ IsWordChar(CharAt(s, i - 1))
        after == i <= Len(s) /\ IsWordChar(CharAt(s, i))
    IN  before # after

\* re.sub(r'\bw\b', r, s) from position i, for a word w of word characters
RECURSIVE SubWord(_, _, _, _)
SubWord(s, w, r, i) ==
    IF i > Len(s) THEN ""
    ELSE IF StartsAt(s, w, i) /\ Boundary(s, i) /\ Boundary(s, i + Len(w))
    THEN r \o SubWord(s, w, r, i + Len(w))
    ELSE CharAt(s, i) \o SubWord(s, w, r, i + 1)

normalize_skill(skill) ==
    LET n0 == RemoveSpecial(Strip(Lower(skill)))
        n1 == SubWord(n0, "js", "javascript", 1)
        n2 == SubWord(n1, "ml", "machine learning", 1)
    IN  SubWord(n2, "ai", "artificial intelligence", 1)

\* difflib, SequenceMatcher(None, a, b) with autojunk: when b has 200 or more
\* characters, those that make up more than 1% of it (more than
\* len(b) // 100 + 1 places) are left out of the search for blocks
CountChar(s, c) == Cardinality({i \in 1..Len(s) : CharAt(s, i) = c})

Popular(b) ==
    IF Len(b) >= 200 THEN {c \in CharsOf(b) : CountChar(b, c) > Len(b) \div 100 + 1} ELSE {}

\* the places of s whose character is searched for
Searched(s, popular) ==
    IF popular = {} THEN 1..Len(s) ELSE {i \in 1..Len(s) : CharAt(s, i) \notin popular}

\* a common block of k characters at i in a and j in b, none of them popular
CommonAt(a, b, i, j, k, popular) ==
    /\ i + k - 1 <= Len(a) /\ j + k - 1 <= Len(b)
    /\ SubSeq(a, i, i + k - 1) = SubSeq(b, j, j + k - 1)
    /\ (popular = {} \/ \A t \in 1..(k - 1) : CharAt(b, j + t) \notin popular)

MinLen(a, b) == IF Len(a) <= Len(b) THEN Len(a) ELSE Len(b)

MaxOf(S) == IF S = {} THEN 0 ELSE CHOOSE x \in S : \A y \in S : y <= x

MinOf(S) == CHOOSE x \in S : \A y \in S : x <= y

\* the block of length k that starts at i in a: the earliest j in b
LongestMatchAt(a, b, k, i, popular) ==
    <<i, MinOf({j \in Searched(b, popular) : CommonAt(a, b, i, j, k, popular)}), k>>

\* the block of the longest length k: the earliest i in a
LongestMatchOfLen(a, b, k, popular) ==
    IF k = 0 THEN <<1, 1, 0>>
    ELSE LongestMatchAt(a, b, k,
            MinOf({i \in 1..Len(a) :
                     \E j \in Searched(b, popular) : CommonAt(a, b, i, j, k, popular)}),
            popular)

\* the block grown to the left while the characters before it are equal
RECURSIVE ExtendLeft(_, _, _)
ExtendLeft(a, b, m) ==
    IF m[1] > 1 /\ m[2] > 1 /\ CharAt(a, m[1] - 1) = CharAt(b, m[2] - 1)
    THEN ExtendLeft(a, b, <<m[1] - 1, m[2] - 1, m[3] + 1>>) ELSE m

\* the block grown to the right while the characters after it are equal
RECURSIVE ExtendRight(_, _, _)
ExtendRight(a, b, m) ==
    IF m[1] + m[3] <= Len(a) /\ m[2] + m[3] <= Len(b)
       /\ CharAt(a, m[1] + m[3]) = CharAt(b, m[2] + m[3])
    THEN ExtendRight(a, b, <<m[1], m[2], m[3] + 1>>) ELSE m

\* find_longest_match over all of a and b: the longest block of searched
\* characters, the earliest in a, then the earliest in b, grown on both sides
\* by equal characters, popular ones too; <<i, j, k>> with k = 0 when none
find_longest_match(a, b, popular) ==
    ExtendRight(a, b, ExtendLeft(a, b,
        LongestMatchOfLen(a, b,
            MaxOf({k \in 1..MinLen(a, b) :
                      \E i \in 1..Len(a), j \in Searched(b, popular) :
                         CommonAt(a, b, i, j, k, popular)}),
            popular)))

\* difflib: the total size of get_matching_blocks: the longest block m, and
\* the blocks to its left and to its right
RECURSIVE MatchingSize(_, _, _)
MatchingAround(a, b, m, popular) ==
    IF m[3] = 0 THEN 0
    ELSE m[3]
         + MatchingSize(SubSeq(a, 1, m[1] - 1), SubSeq(b, 1, m[2] - 1), popular)
         + MatchingSize(SubSeq(a, m[1] + m[3], Len(a)), SubSeq(b, m[2] + m[3], Len(b)), popular)

MatchingSize(a, b, popular) ==
    IF Len(a) = 0 \/ Len(b) = 0 THEN 0
    ELSE MatchingAround(a, b, find_longest_match(a, b, popular), popular)

\* difflib.SequenceMatcher(None, a, b).ratio()
SequenceRatio(a, b) ==
    IF Len(a) + Len(b) = 0 THEN F(1)
    ELSE FDiv(FMul(F(2), F(MatchingSize(a, b, Popular(b)))), F(Len(a) + Len(b)))

find_synonym_matches(skill) ==
    LET normalized_skill == normalize_skill(skill)
    IN  IF normalized_skill \in DOMAIN skill_synonyms
        THEN skill_synonyms[normalized_skill] ELSE {}

SkillMatch(user_skill, job_skill, match_score, match_type) ==
    [user_skill |-> user_skill, job_skill |-> job_skill,
     match_score |-> match_score, match_type |-> match_type]

\* a variant of lines 201-230 that tries the fuzzy match before the synonyms
MatchNormalizedFuzzyFirst(user_skill, job_skill, normalized_user_skill, normalized_job_skill, similarity) ==
    IF normalized_user_skill = normalized_job_skill
    THEN <<SkillMatch(user_skill, job_skill, F(1), "exact")>>
    ELSE IF FLe(fuzzy_threshold, similarity)
    THEN <<SkillMatch(user_skill, job_skill, similarity, "fuzzy")>>
    ELSE IF normalized_job_skill \in find_synonym_matches(user_skill)
    THEN <<SkillMatch(user_skill, job_skill, Lit(95, 100), "synonym")>>
    ELSE <<>>

\* lines 201-230: the match of one pair, given the two normalized skills and
\* their similarity: none or one
MatchNormalized(user_skill, job_skill, normalized_user_skill, normalized_job_skill, similarity) ==
    IF normalized_user_skill = normalized_job_skill
    THEN <<SkillMatch(user_skill, job_skill, F(1), "exact")>>
    ELSE IF normalized_job_skill \in find_synonym_matches(user_skill)
    THEN <<SkillMatch(user_skill, job_skill, Lit(95, 100), "synonym")>>
    ELSE IF FLe(fuzzy_threshold, similarity)
    THEN <<SkillMatch(user_skill, job_skill, similarity, "fuzzy")>>
    ELSE <<>>

SimilarityOf(a, b) == SequenceRatio(a, b)

MatchPairOf(user_skill, job_skill, normalized_user_skill, normalized_job_skill) ==
    MatchNormalized(user_skill, job_skill, normalized_user_skill, normalized_job_skill,
                    SimilarityOf(normalized_user_skill, normalized_job_skill))

\* lines 196-230: one turn of the loop over the job skills
MatchPair(user_skill, job_skill) ==
    MatchPairOf(user_skill, job_skill,
                normalize_skill(user_skill), normalize_skill(job_skill))

RECURSIVE match_single_skill(_, _)
match_single_skill(user_skill, job_skills) ==
    IF job_skills = <<>> THEN <<>>
    ELSE MatchPair(user_skill, Head(job_skills))
         \o match_single_skill(user_skill, Tail(job_skills))

\* lines 241-246: all_matches
RECURSIVE AllMatches(_, _)
AllMatches(user_skills, job_skills) ==
    IF user_skills = <<>> THEN <<>>
    ELSE match_single_skill(Head(user_skills), job_skills)
         \o AllMatches(Tail(user_skills), job_skills)

MatchKey(m) == <<normalize_skill(m.user_skill), normalize_skill(m.job_skill)>>

\* lines 249-255: the dict keyed by the normalized pair, in insertion order,
\* a later match replacing an earlier one of the same key only if it scores higher
RECURSIVE UniqueMatches(_, _)
\* the dict after match m, whose key is held at the positions at (none or one)
UniquePut(unique, m, at) ==
    IF at = {} THEN Append(unique, m)
    ELSE IF FLt(unique[MinOf(at)].match_score, m.match_score)
    THEN [unique EXCEPT ![MinOf(at)] = m]
    ELSE unique

UniqueKeyed(unique, m, key) ==
    UniquePut(unique, m, {i \in 1..Len(unique) : MatchKey(unique[i]) = key})

UniqueMatches(all_matches, unique) ==
    IF all_matches = <<>> THEN unique
    ELSE UniqueMatches(Tail(all_matches),
                       UniqueKeyed(unique, Head(all_matches), MatchKey(Head(all_matches))))

\* a variant of line 276 that counts the matches instead of adding their scores
CountScores(ms) == F(Len(ms))

\* sum(...): the scores added to total one after the other
RECURSIVE SumScoresFrom(_, _)
SumScoresFrom(ms, total) ==
    IF ms = <<>> THEN total ELSE SumScoresFrom(Tail(ms), FAdd(total, Head(ms).match_score))

SumScores(ms) == SumScoresFrom(ms, F(0))

\* a variant of lines 259-269 that compares the skills as written
RECURSIVE UnmatchedAsWritten(_, _)
UnmatchedAsWritten(xs, matched) ==
    IF xs = <<>> THEN <<>>
    ELSE (IF Head(xs) \in matched THEN <<>> ELSE <<Head(xs)>>)
         \o UnmatchedAsWritten(Tail(xs), matched)

\* [x for x in xs if normalize_skill(x) not in matched]
RECURSIVE Unmatched(_, _)
Unmatched(xs, matched) ==
    IF xs = <<>> THEN <<>>
    ELSE (IF normalize_skill(Head(xs)) \in matched THEN <<>> ELSE <<Head(xs)>>)
         \o Unmatched(Tail(xs), matched)

NormalizedOf(all_matches, side) ==
    {normalize_skill(IF side = "job" THEN all_matches[i].job_skill
                     ELSE all_matches[i].user_skill) : i \in 1..Len(all_matches)}

\* a variant of lines 271-281 that scores a job without required skills 0
SkillAnalysisEmptyAsZero(user_skills, job_skills, final_matches, matched_job_skills, matched_user_skills) ==
    [matched_skills |-> final_matches,
     missing_skills |-> Unmatched(job_skills, matched_job_skills),
     additional_skills |-> Unmatched(user_skills, matched_user_skills),
     overall_match_score |->
        IF job_skills = <<>> THEN F(0)
        ELSE FMin(FDiv(SumScores(final_matches), F(Len(job_skills))), F(1)),
     coverage_percentage |->
        IF job_skills = <<>> THEN F(0)
        ELSE FMul(FDiv(F(Cardinality(matched_job_skills)), F(Len(job_skills))), F(100)),
     total_job_skills |-> Len(job_skills),
     total_user_skills |-> Len(user_skills)]

\* a variant of lines 276-278 that divides the matched score by the number
\* of user skills instead of the number of job skills
SkillAnalysisPerUserSkill(user_skills, job_skills, final_matches, matched_job_skills, matched_user_skills) ==
    [matched_skills |-> final_matches,
     missing_skills |-> Unmatched(job_skills, matched_job_skills),
     additional_skills |-> Unmatched(user_skills, matched_user_skills),
     overall_match_score |->
        IF job_skills = <<>> \/ user_skills = <<>> THEN F(1)
        ELSE FMin(FDiv(SumScores(final_matches), F(Len(user_skills))), F(1)),
     coverage_percentage |->
        IF job_skills = <<>> THEN F(100)
        ELSE FMul(FDiv(F(Cardinality(matched_job_skills)), F(Len(job_skills))), F(100)),
     total_job_skills |-> Len(job_skills),
     total_user_skills |-> Len(user_skills)]

\* a variant of line 281 that counts the match records instead of the
\* distinct matched job skills
SkillAnalysisCountingMatches(user_skills, job_skills, final_matches, matched_job_skills, matched_user_skills) ==
    [matched_skills |-> final_matches,
     missing_skills |-> Unmatched(job_skills, matched_job_skills),
     additional_skills |-> Unmatched(user_skills, matched_user_skills),
     overall_match_score |->
        IF job_skills = <<>> THEN F(1)
        ELSE FMin(FDiv(SumScores(final_matches), F(Len(job_skills))), F(1)),
     coverage_percentage |->
        IF job_skills = <<>> THEN F(100)
        ELSE FMul(FDiv(F(Len(final_matches)), F(Len(job_skills))), F(100)),
     total_job_skills |-> Len(job_skills),
     total_user_skills |-> Len(user_skills)]

\* lines 257-291: the analysis, given the matches found
SkillAnalysis(user_skills, job_skills, final_matches, matched_job_skills, matched_user_skills) ==
    [matched_skills |-> final_matches,
     missing_skills |-> Unmatched(job_skills, matched_job_skills),
     additional_skills |-> Unmatched(user_skills, matched_user_skills),
     overall_match_score |->
        IF job_skills = <<>> THEN F(1)
        ELSE FMin(FDiv(SumScores(final_matches), F(Len(job_skills))), F(1)),
     coverage_percentage |->
        IF job_skills = <<>> THEN F(100)
        ELSE FMul(FDiv(F(Cardinality(matched_job_skills)), F(Len(job_skills))), F(100)),
     total_job_skills |-> Len(job_skills),
     total_user_skills |-> Len(user_skills)]

\* lines 241-255: the sets of matched skills and the deduplicated matches
AnalysisOf(user_skills, job_skills, all_matches) ==
    SkillAnalysis(user_skills, job_skills, UniqueMatches(all_matches, <<>>),
                  NormalizedOf(all_matches, "job"), NormalizedOf(all_matches, "user"))

analyze_skill_compatibility(user_skills, job_skills) ==
    AnalysisOf(user_skills, job_skills, AllMatches(user_skills, job_skills))

-----------------------------------------------------------------------------
(* recommendation_engine.py: the other sub-scores *)

\* lines 84-91, in hundredths
weights ==
    [skill_match |-> Lit(35, 100), role_relevance |-> Lit(25, 100),
     experience_match |-> Lit(15, 100), growth_potential |-> Lit(15, 100),
     location_match |-> Lit(5, 100), salary_match |-> Lit(5, 100)]

\* lines 94-110
growth_keywords ==
    [HIGH |-> <<"ai", "artificial intelligence", "machine learning", "ml", "deep learning",
                "cloud", "aws", "azure", "gcp", "kubernetes", "docker",
                "cybersecurity", "security", "blockchain", "cryptocurrency",
                "data science", "big data", "analytics", "python", "react">>,
     MEDIUM |-> <<"software", "developer", "engineer", "programming", "web development",
                  "mobile", "ios", "android", "devops", "automation",
                  "database", "sql", "api", "microservices">>,
     DECLINING |-> <<"flash", "silverlight", "vb6", "cobol", "fortran",
                     "internet explorer", "jquery", "legacy">>]

\* lines 113-118
experience_mapping ==
    [entry |-> <<"entry", "junior", "associate", "intern", "graduate">>,
     mid |-> <<"mid", "intermediate", "experienced", "developer", "analyst">>,
     senior |-> <<"senior", "lead", "principal", "architect", "manager">>,
     executive |-> <<"director", "vp", "chief", "head", "executive">>]

level_hierarchy == <<"entry", "mid", "senior", "executive">>

\* lines 127-134
\* a variant of lines 127-134 without the cap of line 132
SkillScoreUncapped(skill_analysis) ==
    [skill_score |->
        FAdd(FMul(skill_analysis.overall_match_score, F(100)),
             FMul(FDiv(skill_analysis.coverage_percentage, F(100)), F(10))),
     skill_analysis |-> skill_analysis]

SkillScoreOf(skill_analysis) ==
    [skill_score |->
        FMin(FAdd(FMul(skill_analysis.overall_match_score, F(100)),
                  FMul(FDiv(skill_analysis.coverage_percentage, F(100)), F(10))), F(100)),
     skill_analysis |-> skill_analysis]

calculate_skill_score(user_profile, job) ==
    SkillScoreOf(analyze_skill_compatibility(user_profile.skills, job.skills_required))

\* str.split(): the words between runs of whitespace
RECURSIVE WordsFrom(_, _, _)
WordsFrom(s, i, cur) ==
    IF i > Len(s) THEN (IF cur = "" THEN <<>> ELSE <<cur>>)
    ELSE IF CharAt(s, i) \in Whitespace
    THEN (IF cur = "" THEN <<>> ELSE <<cur>>) \o WordsFrom(s, i + 1, "")
    ELSE WordsFrom(s, i + 1, cur \o CharAt(s, i))

SetOf(seq) == {seq[i] : i \in 1..Len(seq)}

Words(s) == SetOf(WordsFrom(s, 1, ""))

RoleOverlapScore(role_words, overlap) ==
    IF overlap > 0 THEN FMul(FDiv(F(overlap), F(Cardinality(role_words))), F(80)) ELSE F(0)

\* a variant of line 156 that divides by the number of title words
RoleWordsScoreByTitle(role_words, title_words) ==
    IF Cardinality(role_words \cap title_words) > 0
    THEN FMul(FDiv(F(Cardinality(role_words \cap title_words)), F(Cardinality(title_words))), F(80))
    ELSE F(0)

RoleWordsScore(role_words, title_words) ==
    RoleOverlapScore(role_words, Cardinality(role_words \cap title_words))

\* lines 143-157: what one preferred role adds to score
RoleContributionOf(role_lower, job_title_lower) ==
    IF Contains(job_title_lower, role_lower) THEN F(100)
    ELSE RoleWordsScore(Words(role_lower), Words(job_title_lower))

RoleContribution(preferred_role, job_title_lower) ==
    RoleContributionOf(Lower(preferred_role), job_title_lower)

\* lines 139-157: score after the roles, each contribution added in turn
RECURSIVE RoleScoreSum(_, _, _)
RoleScoreSum(roles, job_title_lower, score) ==
    IF roles = <<>> THEN score
    ELSE RoleScoreSum(Tail(roles), job_title_lower,
                      FAdd(score, RoleContribution(Head(roles), job_title_lower)))

\* line 159, max_score being 100 for each role
calculate_role_relevance_score(user_profile, job) ==
    IF 100 * Len(user_profile.preferred_roles) > 0
    THEN FMul(FDiv(RoleScoreSum(user_profile.preferred_roles, Lower(job.title), F(0)),
                   F(100 * Len(user_profile.preferred_roles))), F(100))
    ELSE F(0)

\* list.index(x), 1-based; 0 stands for the ValueError
ListIndex(seq, x) == IF InSeq(x, seq) THEN MinOf({i \in 1..Len(seq) : seq[i] = x}) ELSE 0

\* a variant of lines 190-195 with the two one-level scores exchanged
ProgressionScoreSwapped(user_index, job_index) ==
    IF Abs(user_index - job_index) = 0 THEN F(100)
    ELSE IF Abs(user_index - job_index) = 1
    THEN (IF user_index > job_index THEN F(70) ELSE F(85))
    ELSE IF Abs(user_index - job_index) = 2 THEN F(40)
    ELSE F(20)

\* lines 186-199
ProgressionScore(user_index, job_index) ==
    IF Abs(user_index - job_index) = 0 THEN F(100)
    ELSE IF Abs(user_index - job_index) = 1
    THEN (IF user_index > job_index THEN F(85) ELSE F(70))
    ELSE IF Abs(user_index - job_index) = 2 THEN F(40)
    ELSE F(20)

\* lines 182-202
HierarchyScore(user_index, job_index) ==
    IF user_index = 0 \/ job_index = 0 THEN F(50)
    ELSE ProgressionScore(user_index, job_index)

\* lines 170-202
ExperienceScoreOf(user_level, job_level, user_keywords) ==
    IF user_level = job_level THEN F(100)
    ELSE IF \E i \in 1..Len(user_keywords) : Contains(job_level, user_keywords[i])
    THEN F(90)
    ELSE HierarchyScore(ListIndex(level_hierarchy, user_level),
                        ListIndex(level_hierarchy, job_level))

\* experience_mapping.get(user_level, [])
ExperienceKeywords(user_level) ==
    IF user_level \in DOMAIN experience_mapping THEN experience_mapping[user_level]
    ELSE <<>>

ExperienceScoreFor(user_level, job_level) ==
    ExperienceScoreOf(user_level, job_level, ExperienceKeywords(user_level))

calculate_experience_match_score(user_profile, job) ==
    IF ~Truthy(job.experience_level) THEN F(75)
    ELSE ExperienceScoreFor(Lower(user_profile.experience_level),
                            Lower(job.experience_level[1]))

AnyKeyword(keywords, text) == \E i \in 1..Len(keywords) : Contains(text, keywords[i])

GrowthScoreOf(job_text) ==
    IF AnyKeyword(growth_keywords.HIGH, job_text) THEN F(95)
    ELSE IF AnyKeyword(growth_keywords.MEDIUM, job_text) THEN F(75)
    ELSE IF AnyKeyword(growth_keywords.DECLINING, job_text) THEN F(30)
    ELSE F(60)

calculate_growth_score(job) == GrowthScoreOf(Lower(job.title \o " " \o job.description))

-----------------------------------------------------------------------------
(* recommendation_engine.py: calculate_salary_score *)

DigitAt(s, i) == i <= Len(s) /\ IsDigit(CharAt(s, i))

\* \d{1,3}: the end (exclusive) of a greedy run of at most three digits
DigitRunEnd(s, p) ==
    IF DigitAt(s, p + 1) THEN (IF DigitAt(s, p + 2) THEN p + 3 ELSE p + 2)
    ELSE p + 1

\* (?:,\d{3})*: greedy groups of a comma and three digits
RECURSIVE GroupsEnd(_, _)
GroupsEnd(s, q) ==
    IF q <= Len(s) /\ CharAt(s, q) = "," /\ DigitAt(s, q + 1)
       /\ DigitAt(s, q + 2) /\ DigitAt(s, q + 3)
    THEN GroupsEnd(s, q + 4) ELSE q

\* (?:\.\d{2})?: an optional point and two digits
DecimalsEnd(s, q) ==
    IF q <= Len(s) /\ CharAt(s, q) = "." /\ DigitAt(s, q + 1) /\ DigitAt(s, q + 2)
    THEN q + 3 ELSE q

\* re.findall(r'\$?(\d{1,3}(?:,\d{3})*(?:\.\d{2})?)', s) from position i
RECURSIVE FindSalaryNumbers(_, _)
FindSalaryNumbers(s, i) ==
    IF i > Len(s) THEN <<>>
    ELSE LET p == IF CharAt(s, i) = "$" THEN i + 1 ELSE i
         IN  IF DigitAt(s, p)
             THEN LET q == DecimalsEnd(s, GroupsEnd(s, DigitRunEnd(s, p)))
                  IN  <<SubSeq(s, p, q - 1)>> \o FindSalaryNumbers(s, q)
             ELSE FindSalaryNumbers(s, i + 1)

Score(v) == [exc |-> "none", val |-> v]

Raise(e) == [exc |-> e, val |-> F(0)]

Max2(a, b) == IF a >= b THEN a ELSE b

Min2(a, b) == IF a <= b THEN a ELSE b

\* lines 277-282
OverlapScore(overlap_size, user_range_size) ==
    IF user_range_size = 0
    THEN Raise("ZeroDivisionError")
    ELSE Score(FMin(FAdd(F(80), FMul(FDiv(F(overlap_size), F(user_range_size)), F(20))), F(100)))

\* lines 272-288: the comparison of the two ranges
SalaryRangeScore(job_min, job_max, user_min, user_max) ==
    IF job_max >= user_min /\ job_min <= user_max
    THEN OverlapScore(Min2(job_max, user_max) - Max2(job_min, user_min),
                      user_max - user_min)
    ELSE IF job_max < user_min THEN Score(F(20)) ELSE Score(F(40))

\* lines 265-291: int() of the two numbers; its ValueError is caught
ParsedSalaryScore(a, b, user_range) ==
    IF ~IsInt(a) \/ ~IsInt(b) THEN Score(F(75))
    ELSE SalaryRangeScore(ParseInt(a), ParseInt(b), user_range.min, user_range.max)

\* lines 262-291
SalaryNumbersScore(salary_numbers, user_range) ==
    IF Len(salary_numbers) < 2 THEN Score(F(75))
    ELSE ParsedSalaryScore(RemoveChar(salary_numbers[1], ","),
                           RemoveChar(salary_numbers[2], ","), user_range)

calculate_salary_score(user_profile, job) ==
    IF ~TruthyRange(user_profile.salary_range) \/ ~Truthy(job.salary_range)
    THEN Score(F(75))
    ELSE SalaryNumbersScore(FindSalaryNumbers(job.salary_range[1], 1),
                            user_profile.salary_range[1])

-----------------------------------------------------------------------------
(* recommendation_engine.py: calculate_location_score *)

Last(seq) == seq[Len(seq)]

\* a variant of lines 239-251 that lacks the two length tests of line 247
LocationPartsScoreAnyLength(user_parts, job_parts) ==
    IF Strip(user_parts[1]) = Strip(job_parts[1]) THEN F(90)
    ELSE IF Strip(Last(user_parts)) = Strip(Last(job_parts)) THEN F(60)
    ELSE F(30)

\* lines 239-251
LocationPartsScore(user_parts, job_parts) ==
    IF Strip(user_parts[1]) = Strip(job_parts[1]) THEN F(90)
    ELSE IF Len(user_parts) > 1 /\ Len(job_parts) > 1
            /\ Strip(Last(user_parts)) = Strip(Last(job_parts)) THEN F(60)
    ELSE F(30)

\* lines 234-251 alone: a variant that lacks the remote rule of lines 231-232
LocationScoreNoRemote(user_location, job_location) ==
    IF Contains(job_location, user_location) \/ Contains(user_location, job_location)
    THEN F(100)
    ELSE LocationPartsScore(Split(user_location, ","), Split(job_location, ","))

\* lines 231-251
LocationScoreOf(user_location, job_location) ==
    IF Contains(job_location, "remote") THEN F(100)
    ELSE IF Contains(job_location, user_location) \/ Contains(user_location, job_location)
    THEN F(100)
    ELSE LocationPartsScore(Split(user_location, ","), Split(job_location, ","))

calculate_location_score(user_profile, job) ==
    IF ~Truthy(user_profile.location) \/ job.location = ""
    THEN F(75)
    ELSE LocationScoreOf(Lower(user_profile.location[1]), Lower(job.location))

-----------------------------------------------------------------------------
(* recommendation_engine.py: explanation, pros and cons, recommend_jobs *)

RECURSIVE IntToStr(_)
IntToStr(n) ==
    IF n < 10 THEN CharAt(Digits, n + 1)
    ELSE IntToStr(n \div 10) \o CharAt(Digits, (n % 10) + 1)

\* f"{x:.0f}": the exact value of x rounded to an integer, ties to even
Format0f(x) == (IF x[1] < 0 THEN "-" ELSE "") \o IntToStr(NatOfBig(FRoundedMag(x)))

\* list[:k]
SliceTo(seq, k) ==
    LET n == IF k >= 0 THEN (IF k < Len(seq) THEN k ELSE Len(seq))
             ELSE (IF Len(seq) + k > 0 THEN Len(seq) + k ELSE 0)
    IN  SubSeq(seq, 1, n)

\* ', '.join(xs)
RECURSIVE JoinComma(_)
JoinComma(xs) ==
    IF xs = <<>> THEN ""
    ELSE IF Len(xs) = 1 THEN xs[1]
    ELSE xs[1] \o ", " \o JoinComma(Tail(xs))

\* ' '.join(xs)
RECURSIVE JoinSpace(_)
JoinSpace(xs) ==
    IF xs = <<>> THEN ""
    ELSE IF Len(xs) = 1 THEN xs[1]
    ELSE xs[1] \o " " \o JoinSpace(Tail(xs))

get_match_quality(score) ==
    IF FLe(F(85), score) THEN "excellent"
    ELSE IF FLe(F(75), score) THEN "very good"
    ELSE IF FLe(F(65), score) THEN "good"
    ELSE IF FLe(F(50), score) THEN "fair"
    ELSE "developing"

generate_job_explanation(job, score, analysis) ==
    JoinSpace(
        <<"This " \o job.title \o " position at " \o job.company \o " is a "
          \o get_match_quality(score.overall_score) \o " match for your profile.">>
        \o (IF FLe(F(80), score.skill_score)
            THEN <<"Your skills align excellently with the requirements, covering "
                   \o Format0f(analysis.coverage_percentage) \o "% of the needed skills.">>
            ELSE IF FLe(F(60), score.skill_score)
            THEN <<"You have solid skill overlap with "
                   \o Format0f(analysis.coverage_percentage)
                   \o "% coverage of requirements, with some growth opportunities.">>
            ELSE <<"While there are skill gaps to address, this role offers significant "
                   \o "learning opportunities in "
                   \o JoinComma(SliceTo(analysis.missing_skills, 3)) \o ".">>)
        \o (IF FLe(F(80), score.role_relevance_score)
            THEN <<"The role closely matches your career preferences.">>
            ELSE IF FLe(F(60), score.role_relevance_score)
            THEN <<"This role aligns well with your career direction.">>
            ELSE <<>>)
        \o (IF FLe(F(80), score.growth_score)
            THEN <<"The position is in a high-growth area with excellent future prospects.">>
            ELSE IF FLe(F(60), score.growth_score)
            THEN <<"The role offers good career growth opportunities.">>
            ELSE <<>>))

\* one threshold rule: the pro at or above hi, the con below lo
ProIf(c, text) == IF c THEN <<text>> ELSE <<>>

\* a variant of lines 387-391 whose salary pro needs a score above 80
ProsAndConsSalaryAbove(job, score, analysis) ==
    [pros |->
        ProIf(FLe(F(80), score.skill_score),
              "Strong skill match (" \o Format0f(analysis.coverage_percentage)
              \o "% coverage)")
        \o ProIf(Len(analysis.additional_skills) > 2,
                 "You bring additional valuable skills beyond requirements")
        \o ProIf(FLe(F(85), score.experience_match_score), "Perfect experience level match")
        \o ProIf(FLe(F(80), score.growth_score), "High-growth industry/technology")
        \o ProIf(FLe(F(90), score.location_score), "Excellent location match")
        \o ProIf(job.work_type = Some("remote"), "Remote work opportunity")
        \o ProIf(Truthy(job.salary_range) /\ FLt(F(80), score.salary_score),
                 "Competitive salary range"),
     cons |->
        ProIf(~FLe(F(80), score.skill_score) /\ FLt(score.skill_score, F(50)),
              "Significant skill gaps to address")
        \o ProIf(~FLe(F(85), score.experience_match_score)
                 /\ FLt(score.experience_match_score, F(50)), "Experience level mismatch")
        \o ProIf(~FLe(F(80), score.growth_score) /\ FLt(score.growth_score, F(40)),
                 "Limited growth potential in this area")
        \o ProIf(~FLe(F(90), score.location_score) /\ FLt(score.location_score, F(40)),
                 "Location may not be ideal")
        \o ProIf(Truthy(job.salary_range) /\ ~FLe(F(80), score.salary_score)
                 /\ FLt(score.salary_score, F(40)), "Salary may not meet expectations")]

generate_pros_and_cons(job, score, analysis) ==
    [pros |->
        ProIf(FLe(F(80), score.skill_score),
              "Strong skill match (" \o Format0f(analysis.coverage_percentage)
              \o "% coverage)")
        \o ProIf(Len(analysis.additional_skills) > 2,
                 "You bring additional valuable skills beyond requirements")
        \o ProIf(FLe(F(85), score.experience_match_score), "Perfect experience level match")
        \o ProIf(FLe(F(80), score.growth_score), "High-growth industry/technology")
        \o ProIf(FLe(F(90), score.location_score), "Excellent location match")
        \o ProIf(job.work_type = Some("remote"), "Remote work opportunity")
        \o ProIf(Truthy(job.salary_range) /\ FLe(F(80), score.salary_score),
                 "Competitive salary range"),
     cons |->
        ProIf(~FLe(F(80), score.skill_score) /\ FLt(score.skill_score, F(50)),
              "Significant skill gaps to address")
        \o ProIf(~FLe(F(85), score.experience_match_score)
                 /\ FLt(score.experience_match_score, F(50)), "Experience level mismatch")
        \o ProIf(~FLe(F(80), score.growth_score) /\ FLt(score.growth_score, F(40)),
                 "Limited growth potential in this area")
        \o ProIf(~FLe(F(90), score.location_score) /\ FLt(score.location_score, F(40)),
                 "Location may not be ideal")
        \o ProIf(Truthy(job.salary_range) /\ ~FLe(F(80), score.salary_score)
                 /\ FLt(score.salary_score, F(40)), "Salary may not meet expectations")]

\* skill_matcher.py lines 297-306
skill_learning_paths ==
    [python |-> <<"Complete Python course", "Practice on HackerRank", "Build Python projects">>,
     javascript |-> <<"Learn ES6+ features", "Practice DOM manipulation",
                      "Build web applications">>,
     react |-> <<"Complete React tutorial", "Build a portfolio website", "Learn React hooks">>,
     sql |-> <<"Practice on SQLBolt", "Learn database design", "Work with real datasets">>,
     aws |-> <<"Get AWS certification", "Practice with free tier", "Build cloud projects">>,
     docker |-> <<"Learn containerization basics", "Practice with Docker Hub",
                  "Deploy applications">>,
     git |-> <<"Learn Git commands", "Practice with GitHub", "Contribute to open source">>]
    @@ ("machine learning" :> <<"Take ML course", "Practice on Kaggle",
                                "Implement ML algorithms">>)

\* skill_matcher.py: the dict from each missing skill to its suggestions
get_skill_improvement_suggestions(missing_skills) ==
    [skill \in {missing_skills[i] : i \in 1..Len(missing_skills)} |->
        IF normalize_skill(skill) \in DOMAIN skill_learning_paths
        THEN skill_learning_paths[normalize_skill(skill)]
        ELSE <<"Take an online course in " \o skill,
               "Practice " \o skill \o " through projects",
               "Read documentation and tutorials about " \o skill>>]

\* a variant of lines 411-418 with the skill and role weights exchanged
OverallScoreSwapped(skill_score, role_score, experience_score, growth_score, location_score, salary_score) ==
    FAdd(FAdd(FAdd(FAdd(FAdd(FMul(skill_score, weights.role_relevance),
                             FMul(role_score, weights.skill_match)),
                        FMul(experience_score, weights.experience_match)),
                   FMul(growth_score, weights.growth_potential)),
              FMul(location_score, weights.location_match)),
         FMul(salary_score, weights.salary_match))

\* lines 411-418
OverallScore(skill_score, role_score, experience_score, growth_score, location_score, salary_score) ==
    FAdd(FAdd(FAdd(FAdd(FAdd(FMul(skill_score, weights.skill_match),
                             FMul(role_score, weights.role_relevance)),
                        FMul(experience_score, weights.experience_match)),
                   FMul(growth_score, weights.growth_potential)),
              FMul(location_score, weights.location_match)),
         FMul(salary_score, weights.salary_match))

JobScore(skill_score, role_score, experience_score, growth_score, location_score, salary_score) ==
    [skill_score |-> skill_score,
     role_relevance_score |-> role_score,
     experience_match_score |-> experience_score,
     growth_score |-> growth_score,
     location_score |-> location_score,
     salary_score |-> salary_score,
     overall_score |-> OverallScore(skill_score, role_score, experience_score,
                                    growth_score, location_score, salary_score)]

\* lines 436-451
JobRecommendation(job, job_score, skill_analysis, pros_cons) ==
    [job |-> job,
     score |-> job_score,
     skill_analysis |-> skill_analysis,
     explanation |-> generate_job_explanation(job, job_score, skill_analysis),
     pros |-> pros_cons.pros,
     cons |-> pros_cons.cons,
     skill_gaps |-> skill_analysis.missing_skills,
     learning_suggestions |->
        get_skill_improvement_suggestions(skill_analysis.missing_skills)]

RecommendationOf(job, job_score, skill_analysis) ==
    JobRecommendation(job, job_score, skill_analysis,
                      generate_pros_and_cons(job, job_score, skill_analysis))

\* lines 410-451, given the skill score with its analysis and the salary score
RecommendScored(user_profile, job, skill, salary) ==
    IF salary.exc # "none" THEN [exc |-> salary.exc, rec |-> None]
    ELSE [exc |-> "none",
          rec |-> Some(RecommendationOf(job,
                          JobScore(skill.skill_score,
                                   calculate_role_relevance_score(user_profile, job),
                                   calculate_experience_match_score(user_profile, job),
                                   calculate_growth_score(job),
                                   calculate_location_score(user_profile, job),
                                   salary.val),
                          skill.skill_analysis))]

\* lines 402-451: the body of the loop for one job; exc is the exception that
\* leaves the loop
RecommendOne(user_profile, job) ==
    RecommendScored(user_profile, job, calculate_skill_score(user_profile, job),
                    calculate_salary_score(user_profile, job))

\* RecommendOne for the profiles and jobs of the requests, computed once each
RecommendMemo ==
    [p \in RequestProfiles, j \in SetOf(JobCatalog) |-> RecommendOne(p, j)]

\* lines 401-453: the recommendations in input order, or the first exception
RECURSIVE RecommendAll(_, _, _)
RecommendNext(user_profile, job_list, acc, one) ==
    IF one.exc # "none" THEN [exc |-> one.exc, recs |-> <<>>]
    ELSE RecommendAll(user_profile, Tail(job_list), Append(acc, one.rec[1]))

RecommendAll(user_profile, job_list, acc) ==
    IF job_list = <<>> THEN [exc |-> "none", recs |-> acc]
    ELSE RecommendNext(user_profile, job_list, acc,
                       RecommendMemo[user_profile, Head(job_list)])

\* where list.sort(key=overall_score, reverse=True) puts the next element of
\* the input: after the elements that do not score lower (the sort is stable)
InsertAt(sorted, rec, n) ==
    SubSeq(sorted, 1, n) \o <<rec>> \o SubSeq(sorted, n + 1, Len(sorted))

\* a variant that puts the next element before the elements that score the
\* same: a sort that is not stable
InsertBeforeEqual(sorted, rec) ==
    InsertAt(sorted, rec,
             Cardinality({i \in 1..Len(sorted) :
                             FLt(rec.score.overall_score, sorted[i].score.overall_score)}))

InsertByScore(sorted, rec) ==
    InsertAt(sorted, rec,
             Cardinality({i \in 1..Len(sorted) :
                             FLe(rec.score.overall_score, sorted[i].score.overall_score)}))

RECURSIVE SortByScore(_, _)
SortByScore(recommendations, sorted) ==
    IF recommendations = <<>> THEN sorted
    ELSE SortByScore(Tail(recommendations), InsertByScore(sorted, Head(recommendations)))

\* line 395
DefaultTopK == 5

\* lines 455-459
SortAndSlice(all, k) ==
    IF all.exc # "none" THEN all
    ELSE [exc |-> "none", recs |-> SliceTo(SortByScore(all.recs, <<>>), k)]

recommend_jobs(user_profile, job_list, k) ==
    SortAndSlice(RecommendAll(user_profile, job_list, <<>>), k)

\* career_assistant.py lines 154-166; k is None or Some(top_k)
get_recommendations(user_profile, job_list, k) ==
    recommend_jobs(user_profile, job_list, IF k = None THEN Len(job_list) ELSE k[1])

\* job_analyzer.py lines 19-29
CompanyInsight(company_name, industry, company_size, reputation_score, growth_stage, culture_keywords, notable_benefits, remote_friendly) ==
    [company_name |-> company_name, industry |-> industry,
     company_size |-> company_size, reputation_score |-> reputation_score,
     growth_stage |-> growth_stage, culture_keywords |-> culture_keywords,
     notable_benefits |-> notable_benefits, remote_friendly |-> remote_friendly]

\* the keys of the dict of _load_company_data, in its order
CompanyKeys == <<"google", "microsoft", "amazon", "netflix", "unknown">>

\* job_analyzer.py lines 54-107: the dict that _load_company_data returns
CompanyData ==
    [google |->
        CompanyInsight("Google", "Technology", "enterprise", 95, "mature",
                       <<"innovative", "data-driven", "collaborative">>,
                       <<"Excellent health insurance", "Stock options", "Learning budget">>,
                       TRUE),
     microsoft |->
        CompanyInsight("Microsoft", "Technology", "enterprise", 92, "mature",
                       <<"inclusive", "growth mindset", "global">>,
                       <<"Comprehensive benefits", "Flexible work", "Career development">>,
                       TRUE),
     amazon |->
        CompanyInsight("Amazon", "Technology/E-commerce", "enterprise", 78, "mature",
                       <<"customer obsessed", "fast-paced", "high standards">>,
                       <<"Stock options", "Career advancement", "Global opportunities">>,
                       FALSE),
     netflix |->
        CompanyInsight("Netflix", "Media/Technology", "large", 85, "mature",
                       <<"freedom", "responsibility", "high performance">>,
                       <<"Unlimited PTO", "Top of market pay", "Stock options">>, TRUE),
     unknown |->
        CompanyInsight("Unknown Company", "Various", "unknown", 65, "unknown",
                       <<"professional">>, <<"Standard benefits">>, FALSE)]

\* recommendation_engine.py lines 80-118 and skill_matcher.py lines 42-45: the
\* fields that JobRecommendationEngine() and its SkillMatcher() are built with
EngineFields ==
    [weights |-> weights, growth_keywords |-> growth_keywords,
     experience_mapping |-> experience_mapping, skill_synonyms |-> skill_synonyms,
     fuzzy_threshold |-> fuzzy_threshold]

-----------------------------------------------------------------------------
(* A recommendation request: the profile is constructed, then the jobs are   *)
(* ranked once, by the engine directly or through the assistant.             *)

Init ==
    /\ args = None
    /\ profile = None
    /\ raised = "none"
    /\ jobs = <<>>
    /\ top_k = None
    /\ recs = <<>>
    /\ ret = None
    /\ op = "start"
    /\ engine = EngineFields
    /\ workers = <<>>
    /\ scored = <<>>
    /\ loader = None
    /\ company_database = CompanyData
    /\ insights = <<>>

\* the state after UserProfile(...) with the arguments a
Constructed(a, r) ==
    /\ args' = Some(a)
    /\ profile' = r.profile
    /\ raised' = r.exc
    /\ op' = "UserProfile"
    /\ UNCHANGED <<jobs, top_k, recs, ret, pool, aside>>

\* UserProfile(...) with arguments from inputs
Construct(inputs) ==
    /\ op = "start"
    /\ \E a \in inputs :
          Constructed(a, post_init(a.skills, a.experience_level, a.preferred_roles,
                                   a.location, a.salary_range, a.work_type))

CreateProfile == Construct(ProfileInputs)

\* the state after a ranking call
Returned(name, l, k, r) ==
    /\ jobs' = l
    /\ top_k' = k
    /\ recs' = r.recs
    /\ raised' = r.exc
    /\ op' = name
    /\ UNCHANGED <<args, profile, ret, pool, aside>>

\* engine.recommend_jobs(profile, jobs[, top_k])
RecommendJobs ==
    /\ op = "UserProfile"
    /\ profile # None
    /\ \E l \in JobLists, k \in TopKs :
          Returned("recommend_jobs", l, k,
                   recommend_jobs(profile[1], l, IF k = None THEN DefaultTopK ELSE k[1]))

\* assistant.get_recommendations(profile, jobs[, top_k])
GetRecommendations ==
    /\ op = "UserProfile"
    /\ profile # None
    /\ \E l \in JobLists, k \in TopKs :
          Returned("get_recommendations", l, k, get_recommendations(profile[1], l, k))

Next == CreateProfile \/ RecommendJobs \/ GetRecommendations

Spec == Init /\ [][Next]_vars

-----------------------------------------------------------------------------
(* The weighted sum of lines 410-428 on its own, for sub-scores over the     *)
(* whole range, beside the requests.                                         *)

SkillSubScores == {F(0), F(66), F(100)}

RoleSubScores == {F(0), F(40), F(100)}

ExperienceSubScores == {F(0), F(20), F(90), F(100)}

GrowthSubScores == {F(0), F(30), F(95), F(100)}

LocationSubScores == {F(0), F(60), F(90), F(100)}

SalarySubScores == {F(0), F(75), F(88), F(100)}

\* JobScore(...) of six given sub-scores
WeighScores ==
    /\ op = "start"
    /\ \E s1 \in SkillSubScores, s2 \in RoleSubScores, s3 \in ExperienceSubScores,
          s4 \in GrowthSubScores, s5 \in LocationSubScores, s6 \in SalarySubScores :
          ret' = Some(JobScore(s1, s2, s3, s4, s5, s6))
    /\ op' = "JobScore"
    /\ UNCHANGED <<args, profile, raised, jobs, top_k, recs, pool, aside>>

NextOverall == CreateProfile \/ RecommendJobs \/ GetRecommendations \/ WeighScores

SpecOverall == Init /\ [][NextOverall]_vars

-----------------------------------------------------------------------------
(* UserProfile construction over experience levels, skills and roles         *)

ExperienceLevelInputs ==
    {"entry", "mid", "senior", "executive", "Entry", "MID", "SeNiOr", "EXECUTIVE",
     "junior", "", " mid", "mid ", "mid\r", "intern", "Mid-level", "lead"}

SkillInputs ==
    {<<>>, <<"Python", " SQL ", "">>, <<"  ", "\tJava\n">>,
     <<"C++", "node.js ", " React Native">>, <<"a\r", "\r", "a" \o NoBreakSpace, "École">>}

RoleInputs == {<<>>, <<" Data  Scientist ">>, <<"", "ML Engineer">>, <<"data\rscientist", "É\f">>}

ConstructorInputs ==
    {ProfileArgs(s, e, r, None, None, None) :
        s \in SkillInputs, e \in ExperienceLevelInputs, r \in RoleInputs}

ConstructProfile == Construct(ConstructorInputs)

NextProfile == ConstructProfile

SpecProfile == Init /\ [][NextProfile]_vars

-----------------------------------------------------------------------------
(* calculate_salary_score over profile ranges and job salary texts           *)

SalaryRangeInputs ==
    {None, SalaryRange(80000, 120000), SalaryRange(100000, 100000),
     SalaryRange(50000, 60000), SalaryRange(0, 0), SalaryRange(120000, 80000)}

SalaryProfileInputs ==
    {ProfileArgs(<<"python">>, "mid", <<"Data Scientist">>, None, r, None) :
        r \in SalaryRangeInputs}

SalaryTextInputs ==
    {None, Some(""), Some("Competitive"), Some("$95,000"), Some("50000"),
     Some("80000 - 120000"), Some("100k-120k"), Some("90,000.50 - 130,000.00"),
     Some("$90,000 - $130,000"), Some("$130,000 - $90,000"), Some("$110,000 - $90,000"),
     Some("$130,000 - $70,000"), Some("$70,000 - $130,000"), Some("$60,000 - $70,000"),
     Some("$125,000 - $150,000"), Some("$120,000 - $150,000"), Some("$60,000 - $80,000"),
     Some("$100,000 - $100,000"), Some("From $85,000 to $95,000 a year"),
     Some("$1,000,000 - $2,000,000"), Some("$0 - $0"), Some("$40,000 - $55,000")}

JobWithSalary(text) ==
    JobPosting("Data Scientist", "Tech Corp", "Remote", "Python", <<"python">>,
               None, text, None)

CreateSalaryProfile == Construct(SalaryProfileInputs)

\* the state after a scoring call on one job
Scored(name, job, r) ==
    /\ jobs' = <<job>>
    /\ ret' = IF r.exc = "none" THEN Some(r.val) ELSE None
    /\ raised' = r.exc
    /\ op' = name
    /\ UNCHANGED <<args, profile, top_k, recs, pool, aside>>

\* engine.calculate_salary_score(profile, job)
SalaryScore ==
    /\ op = "UserProfile"
    /\ profile # None
    /\ \E text \in SalaryTextInputs :
          Scored("calculate_salary_score", JobWithSalary(text),
                 calculate_salary_score(profile[1], JobWithSalary(text)))

NextSalary == CreateSalaryProfile \/ SalaryScore

SpecSalary == Init /\ [][NextSalary]_vars

-----------------------------------------------------------------------------
(* calculate_location_score over profile locations and job locations         *)

ProfileLocationInputs ==
    {None, Some(""), Some("Paris"), Some("remote"), Some("San Francisco, CA"),
     Some("Austin, TX"), Some("san francisco"), Some("CA"), Some("New York, NY"),
     Some("Oakland, CA"), Some("CA "), Some("Dallas,TX"), Some("Paris , TX"),
     Some("a\r, tx"), Some("Montréal, QC")}

LocationProfileInputs ==
    {ProfileArgs(<<"python">>, "mid", <<"Data Scientist">>, l, None, None) :
        l \in ProfileLocationInputs}

JobLocationInputs ==
    {"Remote", "REMOTE - US", "Remote (Paris)", "Hybrid/remote, CA", "",
     "San Francisco, CA", "New York, NY", "Paris, France", "Los Angeles, CA",
     "Austin", "Remo te", "Anywhere", "TX  ", "Houston, TX", "A, TX", "MONTRÉAL, QC"}

JobAt(location) ==
    JobPosting("Data Scientist", "Tech Corp", location, "Python", <<"python">>,
               None, None, None)

CreateLocatedProfile == Construct(LocationProfileInputs)

\* engine.calculate_location_score(profile, job)
LocationScore ==
    /\ op = "UserProfile"
    /\ profile # None
    /\ \E location \in JobLocationInputs :
          Scored("calculate_location_score", JobAt(location),
                 Score(calculate_location_score(profile[1], JobAt(location))))

NextLocation == CreateLocatedProfile \/ LocationScore

SpecLocation == Init /\ [][NextLocation]_vars

-----------------------------------------------------------------------------
(* calculate_experience_match_score over user levels and job level texts     *)

ExperienceProfileInputs ==
    {ProfileArgs(<<"python">>, e, <<"Data Scientist">>, None, None, None) :
        e \in {"entry", "Mid", "SENIOR", "executive"}}

JobLevelInputs ==
    {None, Some(""), Some("entry"), Some("mid"), Some("senior"), Some("executive"),
     Some("Senior"), Some("ENTRY"), Some("Mid-Senior level"), Some("Entry level"),
     Some("junior"), Some("Junior Developer"), Some("Internship"), Some("intermediate"),
     Some("Lead"), Some("principal engineer"), Some("Director"), Some("VP of Data"),
     Some("Head of Analytics"), Some("Senior Manager"), Some("associate"),
     Some("Executive"), Some("experienced"), Some("staff"), Some("any"),
     Some("Graduate analyst")}

JobAtLevel(level) ==
    JobPosting("Data Scientist", "Tech Corp", "Remote", "Python", <<"python">>,
               level, None, None)

CreateExperiencedProfile == Construct(ExperienceProfileInputs)

\* engine.calculate_experience_match_score(profile, job)
ExperienceScore ==
    /\ op = "UserProfile"
    /\ profile # None
    /\ \E level \in JobLevelInputs :
          Scored("calculate_experience_match_score", JobAtLevel(level),
                 Score(calculate_experience_match_score(profile[1], JobAtLevel(level))))

NextExperience == CreateExperiencedProfile \/ ExperienceScore

SpecExperience == Init /\ [][NextExperience]_vars

-----------------------------------------------------------------------------
(* calculate_role_relevance_score over preferred roles and job titles        *)

PreferredRoleInputs ==
    {<<>>, <<"Data Scientist">>, <<"data scientist", "ML Engineer">>,
     <<"Senior Data Engineer">>, <<"engineer">>, <<"Data  Data Scientist">>,
     <<"Frontend Developer", "Backend Developer", "Data Analyst">>,
     <<"scientist data">>, <<"Product Manager">>, <<" Analyst ", "">>,
     <<"data\rscientist">>, <<"École", "data" \o NoBreakSpace \o "x">>,
     <<"data engineer", "cloud data engineer", "machine learning engineer or data scientist">>}

RoleProfileInputs ==
    {ProfileArgs(<<"python">>, "mid", r, None, None, None) : r \in PreferredRoleInputs}

JobTitleInputs ==
    {"Senior Data Scientist", "Data Scientist", "DATA SCIENTIST II",
     "Machine Learning Engineer", "Frontend Developer", "Data Analyst", "Office Clerk",
     "", "Data Engineer (Senior)", "Scientist, Data", "Engineering Manager",
     "Full Stack Developer", "Data Scientist Engineer", "Senior Data Engineer",
     "senior scientist", "école", "DATA Y"}

JobTitled(title) ==
    JobPosting(title, "Tech Corp", "Remote", "Python", <<"python">>, None, None, None)

CreateRoleProfile == Construct(RoleProfileInputs)

\* engine.calculate_role_relevance_score(profile, job)
RoleRelevanceScore ==
    /\ op = "UserProfile"
    /\ profile # None
    /\ \E title \in JobTitleInputs :
          Scored("calculate_role_relevance_score", JobTitled(title),
                 Score(calculate_role_relevance_score(profile[1], JobTitled(title))))

NextRole == CreateRoleProfile \/ RoleRelevanceScore

SpecRole == Init /\ [][NextRole]_vars

-----------------------------------------------------------------------------
(* The skill matcher: analyze_skill_compatibility on two lists of skill      *)
(* names, called directly and through calculate_skill_score on a profile.    *)

UserSkillInputs ==
    {<<>>, <<"python", "sql">>, <<"Python", " SQL ", "python">>, <<"js", "react">>,
     <<"javascript", "node.js">>, <<"postgres", "mongo">>, <<"ml", "pytorch">>,
     <<"py", "python3">>, <<"reactjs", "react.js", "React">>, <<"c++", "docker">>,
     <<"nodejs">>, <<"ecmascript", "java">>, <<"python", "py", "python3", "python2">>,
     <<"Café", "a\rb", "jsé">>}

JobSkillInputs ==
    {<<>>, <<"python", "sql", "aws">>, <<"Python", "python", "PYTHON!">>,
     <<"JavaScript", "React.js">>, <<"node.js">>, <<"postgresql", "mongodb">>,
     <<"machine learning", "torch">>, <<"java", "kubernetes">>,
     <<"javascript", "react", "js">>, <<"cpp", "containers">>,
     <<"pythons", "mysql">>, <<"nodejs", "node">>, <<"café", "ab", "javascript">>}

SkillProfileInputs ==
    {ProfileArgs(s, "mid", <<"Data Scientist">>, None, None, None) : s \in UserSkillInputs}

JobRequiring(skills_required) ==
    JobPosting("Data Scientist", "Tech Corp", "Remote", "Python", skills_required,
               None, None, None)

CreateSkilledProfile == Construct(SkillProfileInputs)

\* engine.calculate_skill_score(profile, job)
SkillScore ==
    /\ op = "UserProfile"
    /\ profile # None
    /\ \E s \in JobSkillInputs :
          Scored("calculate_skill_score", JobRequiring(s),
                 Score(calculate_skill_score(profile[1], JobRequiring(s))))

\* the state after matcher.analyze_skill_compatibility(a.user_skills, a.job_skills)
Analyzed(a, r) ==
    /\ args' = Some(a)
    /\ ret' = Some(r)
    /\ op' = "analyze_skill_compatibility"
    /\ UNCHANGED <<profile, raised, jobs, top_k, recs, pool, aside>>

\* matcher.analyze_skill_compatibility(user_skills, job_skills)
AnalyzeSkills ==
    /\ op = "start"
    /\ \E u \in UserSkillInputs, j \in JobSkillInputs :
          Analyzed([user_skills |-> u, job_skills |-> j], analyze_skill_compatibility(u, j))

NextSkills == CreateSkilledProfile \/ SkillScore \/ AnalyzeSkills

SpecSkills == Init /\ [][NextSkills]_vars

-----------------------------------------------------------------------------
(* The synonym table: it is built when the matcher is constructed, and then  *)
(* one user skill is matched against one job skill.                          *)

SynonymNameInputs ==
    {"javascript", "js", "node.js", "nodejs", "node", "ecmascript",
     "python", "py", "postgres", "postgresql", "react", "reactjs", "react.js",
     "scikit-learn", "sklearn", "devops", "ci/cd"}

\* self.skill_synonyms = self._load_skill_synonyms()
LoadSkillSynonyms ==
    /\ op = "start"
    /\ ret' = Some(skill_synonyms)
    /\ op' = "_load_skill_synonyms"
    /\ UNCHANGED <<args, profile, raised, jobs, top_k, recs, pool, aside>>

\* the state after matcher.match_single_skill(a.user_skill, [a.job_skill])
Matched(a, r) ==
    /\ args' = Some(a)
    /\ ret' = Some(r)
    /\ op' = "match_single_skill"
    /\ UNCHANGED <<profile, raised, jobs, top_k, recs, pool, aside>>

\* matcher.match_single_skill(user_skill, [job_skill])
MatchSingleSkill ==
    /\ op = "_load_skill_synonyms"
    /\ \E u \in SynonymNameInputs, j \in SynonymNameInputs :
          Matched([user_skill |-> u, job_skill |-> j], match_single_skill(u, <<j>>))

NextSynonyms == LoadSkillSynonyms \/ MatchSingleSkill

SpecSynonyms == Init /\ [][NextSynonyms]_vars

-----------------------------------------------------------------------------
(* recommend_jobs on one job at a time, for jobs whose sub-scores fall on    *)
(* every side of the thresholds of generate_pros_and_cons.                   *)

ProsConsProfileInputs ==
    {ProfileArgs(<<"python", "sql">>, "mid", <<"Data Scientist">>,
                 Some("Austin, TX"), SalaryRange(80000, 120000), Some("remote")),
     ProfileArgs(<<"python", "sql", "excel", "git", "docker">>, "entry", <<>>,
                 None, None, None)}

RequiredSkillInputs ==
    {<<"python", "sql">>, <<"python", "sql", "aws", "docker">>, <<"java", "go", "rust">>}

RequiredLevelInputs == {Some("mid"), Some("senior"), Some("executive")}

DescriptionInputs == {"machine learning models", "legacy cobol", "filing"}

PostedLocationInputs == {"Austin, TX", "Dallas, TX", "Paris, France"}

WorkTypeInputs == {Some("remote"), Some("Remote"), None}

PostedSalaryInputs ==
    {None, Some("$90,000 - $130,000"), Some("$60,000 - $70,000"),
     Some("$120,000 - $150,000"), Some("$125,000 - $150,000")}

ProsConsJobs ==
    {JobPosting("Clerk", "Tech Corp", l, d, s, e, sal, w) :
        s \in RequiredSkillInputs, e \in RequiredLevelInputs, d \in DescriptionInputs,
        l \in PostedLocationInputs, w \in WorkTypeInputs, sal \in PostedSalaryInputs}

CreateProsConsProfile == Construct(ProsConsProfileInputs)

\* lines 401-459 for a list of one job: its recommendation, or the exception
RecommendedAlone(one) ==
    IF one.exc # "none" THEN [exc |-> one.exc, recs |-> <<>>]
    ELSE [exc |-> "none", recs |-> <<one.rec[1]>>]

\* engine.recommend_jobs(profile, [job], 1)
RecommendOneJob ==
    /\ op = "UserProfile"
    /\ profile # None
    /\ \E job \in ProsConsJobs :
          Returned("recommend_jobs", <<job>>, Some(1),
                   RecommendedAlone(RecommendOne(profile[1], job)))

NextProsCons == CreateProsConsProfile \/ RecommendOneJob

SpecProsCons == Init /\ [][NextProsCons]_vars

-----------------------------------------------------------------------------
(* A pool of workers that score the jobs of one list against one engine and  *)
(* one profile: each worker runs the body of the loop of recommend_jobs      *)
(* (lines 402-428) for its jobs, one statement at a time, and the workers'   *)
(* statements interleave.                                                    *)

PoolSize == 2

PoolJobLists ==
    {<<JobCatalog[1], JobCatalog[2], JobCatalog[3], JobCatalog[5]>>,
     <<JobCatalog[2], JobCatalog[1], JobCatalog[4]>>}

\* the statements of the loop body, in order, and the position after each
Statements == <<"skill", "role", "experience", "growth", "location", "salary", "score">>

After(pc) == Statements[1 + CHOOSE i \in 1..Len(Statements) : Statements[i] = pc]

\* the locals of the loop body before its first statement
NoLocals ==
    [skill_score |-> None, skill_analysis |-> None, role_score |-> None,
     experience_score |-> None, growth_score |-> None, location_score |-> None,
     salary_score |-> None]

\* a worker about to score the job at index i of the list, or with nothing
\* left to score
WorkerAt(i, n) ==
    [job |-> IF i <= n THEN i ELSE 0, pc |-> IF i <= n THEN "skill" ELSE "done",
     locals |-> NoLocals]

\* a variant in which the names of the loop body are attributes of the shared
\* engine, one for all calls, instead of locals of each call
AssignShared(ws, w, name, value) ==
    [x \in DOMAIN ws |-> [ws[x] EXCEPT !.locals[name] = Some(value)]]

\* name = value in the call of worker w: a local of that call
AssignLocal(ws, w, name, value) == [ws EXCEPT ![w].locals[name] = Some(value)]

\* the workers after worker w ran one statement that assigned name
Assigned(ws, w, name, value) ==
    [AssignLocal(ws, w, name, value) EXCEPT ![w].pc = After(ws[w].pc)]

\* lines 403-408: the statement at pc, for the job and the profile; the name
\* it assigns and the value
Statement(pc, user_profile, job) ==
    IF pc = "skill" THEN <<"skill_score", calculate_skill_score(user_profile, job)>>
    ELSE IF pc = "role"
    THEN <<"role_score", calculate_role_relevance_score(user_profile, job)>>
    ELSE IF pc = "experience"
    THEN <<"experience_score", calculate_experience_match_score(user_profile, job)>>
    ELSE IF pc = "growth" THEN <<"growth_score", calculate_growth_score(job)>>
    ELSE <<"location_score", calculate_location_score(user_profile, job)>>

\* skill_score, skill_analysis = ... assigns two locals
AssignedBoth(ws, w, both) ==
    Assigned(AssignLocal(ws, w, "skill_analysis", both.skill_analysis), w,
             "skill_score", both.skill_score)

AssignedTo(ws, w, assignment) ==
    IF assignment[1] = "skill_score" THEN AssignedBoth(ws, w, assignment[2])
    ELSE Assigned(ws, w, assignment[1], assignment[2])

\* lines 411-428: the JobScore of the locals of a call, with the analysis
ScoreOfLocals(l) ==
    [score |-> JobScore(l.skill_score[1], l.role_score[1], l.experience_score[1],
                        l.growth_score[1], l.location_score[1], l.salary_score[1]),
     skill_analysis |-> l.skill_analysis[1]]

\* workers = a pool of PoolSize workers on engine, profile and a job list
StartPool ==
    /\ op = "UserProfile"
    /\ profile # None
    /\ \E l \in PoolJobLists :
          /\ jobs' = l
          /\ workers' = [w \in 1..PoolSize |-> WorkerAt(w, Len(l))]
          /\ scored' = [i \in 1..Len(l) |-> None]
    /\ op' = "pool"
    /\ UNCHANGED <<args, profile, raised, top_k, recs, ret, engine, aside>>

\* one of lines 403-407 in worker w
Calculate(w) ==
    /\ op = "pool"
    /\ workers[w].pc \in {"skill", "role", "experience", "growth", "location"}
    /\ workers' = AssignedTo(workers, w,
                             Statement(workers[w].pc, profile[1], jobs[workers[w].job]))
    /\ UNCHANGED <<args, profile, raised, jobs, top_k, recs, ret, op, engine, scored, aside>>

\* the workers after the call of worker w raised
Stopped(ws, w) == [ws EXCEPT ![w].pc = "raised"]

\* the state after line 408 in worker w returned, or raised
SalaryCalculated(w, r) ==
    /\ workers' = IF r.exc = "none" THEN Assigned(workers, w, "salary_score", r.val)
                  ELSE Stopped(workers, w)
    /\ raised' = r.exc
    /\ UNCHANGED <<args, profile, jobs, top_k, recs, ret, op, engine, scored, aside>>

\* line 408 in worker w
CalculateSalary(w) ==
    /\ op = "pool"
    /\ workers[w].pc = "salary"
    /\ SalaryCalculated(w, calculate_salary_score(profile[1], jobs[workers[w].job]))

\* lines 411-428 in worker w: the job is scored, and the worker goes on to
\* its next job
ComposeScore(w) ==
    /\ op = "pool"
    /\ workers[w].pc = "score"
    /\ scored' = [scored EXCEPT ![workers[w].job] = Some(ScoreOfLocals(workers[w].locals))]
    /\ workers' = [workers EXCEPT ![w] = WorkerAt(workers[w].job + PoolSize, Len(jobs))]
    /\ UNCHANGED <<args, profile, raised, jobs, top_k, recs, ret, op, engine, aside>>

NextPool ==
    \/ CreateProfile
    \/ StartPool
    \/ \E w \in 1..PoolSize : Calculate(w) \/ CalculateSalary(w) \/ ComposeScore(w)

SpecPool == Init /\ [][NextPool]_vars

-----------------------------------------------------------------------------
(* Fraud/src/data_loader.py: CertificateDataLoader and extract_ocr.  The     *)
(* OCR backends are outside the repository: what a call of one returns, or   *)
(* that it raises, is an input.                                              *)

\* what self.ocr_reader.readtext(image) does: it returns the texts detected
\* (the r[1] of its result), or raises
ReadtextOutcomes ==
    {Score(<<>>), Score(<<"CERTIFICATE">>), Score(<<"Certificate", "of", "Completion">>),
     [exc |-> "RuntimeError", val |-> <<>>]}

\* what pytesseract.image_to_string(image) does: it returns a text, or raises
TesseractOutcomes ==
    {Score(""), Score("Certificate of Completion"),
     [exc |-> "TesseractNotFoundError", val |-> ""]}

\* lines 11-24 and 46-58: the module's flags and the reader that _init_ocr
\* leaves: a Reader when EasyOCR is importable and its construction succeeds
Loader(easyocr_available, tesseract_available, reader_constructed) ==
    [EASYOCR_AVAILABLE |-> easyocr_available,
     TESSERACT_AVAILABLE |-> tesseract_available,
     ocr_reader |-> IF easyocr_available /\ reader_constructed THEN Some("Reader") ELSE None]

\* a variant of lines 108-116 without the inner try of lines 111-114
OcrFallbackUnguarded(l, tesseract) ==
    IF l.TESSERACT_AVAILABLE THEN tesseract ELSE Score("")

\* lines 106-115: the except branch, with what its call of Tesseract does
OcrFallback(l, tesseract) ==
    IF l.TESSERACT_AVAILABLE
    THEN (IF tesseract.exc = "none" THEN Score(tesseract.val) ELSE Score(""))
    ELSE Score("")

\* lines 98-116; readtext is what EasyOCR does when called, tesseract[n] what
\* the n-th call of Tesseract does
extract_ocr(l, readtext, tesseract) ==
    IF l.ocr_reader # None /\ l.EASYOCR_AVAILABLE
    THEN (IF readtext.exc = "none" THEN Score(JoinSpace(readtext.val))
          ELSE OcrFallback(l, tesseract[1]))
    ELSE IF l.TESSERACT_AVAILABLE
    THEN (IF tesseract[1].exc = "none" THEN Score(tesseract[1].val)
          ELSE OcrFallback(l, tesseract[2]))
    ELSE Score("")

\* CertificateDataLoader(data_dir), in each environment
CreateLoader ==
    /\ op = "start"
    /\ \E e \in BOOLEAN, t \in BOOLEAN, c \in BOOLEAN : loader' = Some(Loader(e, t, c))
    /\ op' = "CertificateDataLoader"
    /\ UNCHANGED <<args, profile, raised, jobs, top_k, recs, ret, pool,
                   company_database, insights>>

\* the state after loader.extract_ocr(image), for what the backends did
Extracted(backends, r) ==
    /\ args' = Some(backends)
    /\ ret' = IF r.exc = "none" THEN Some(r.val) ELSE None
    /\ raised' = r.exc
    /\ op' = "extract_ocr"
    /\ UNCHANGED <<profile, jobs, top_k, recs, pool, aside>>

\* loader.extract_ocr(image)
ExtractOcr ==
    /\ op = "CertificateDataLoader"
    /\ \E r \in ReadtextOutcomes, t1 \in TesseractOutcomes, t2 \in TesseractOutcomes :
          Extracted([readtext |-> r, tesseract |-> <<t1, t2>>],
                    extract_ocr(loader[1], r, <<t1, t2>>))

NextOcr == CreateLoader \/ ExtractOcr

SpecOcr == Init /\ [][NextOcr]_vars

-----------------------------------------------------------------------------
(* normalize_skill on skill names written with punctuation and whitespace    *)
(* around them, and match_single_skill on two writings of one name.          *)

SkillCoreInputs ==
    {"python", "js", "ml", "ai", "Node.js", "c++", "React JS", "scikit-learn", "ci/cd",
     "École Js", "a\rb"}

SkillPrefixInputs == {"", " ", "- ", "("}

SkillSuffixInputs == {"", " ", " !", "!", ")"}

\* matcher.normalize_skill(skill)
NormalizeSkill ==
    /\ op = "start"
    /\ \E p \in SkillPrefixInputs, c \in SkillCoreInputs, s \in SkillSuffixInputs :
          /\ args' = Some(p \o c \o s)
          /\ ret' = Some(normalize_skill(p \o c \o s))
    /\ op' = "normalize_skill"
    /\ UNCHANGED <<profile, raised, jobs, top_k, recs, pool, aside>>

\* matcher.match_single_skill(user_skill, [job_skill]) on two writings of a name
MatchWritings ==
    /\ op = "start"
    /\ \E c \in SkillCoreInputs, s1 \in SkillSuffixInputs, s2 \in SkillSuffixInputs :
          Matched([user_skill |-> c \o s1, job_skill |-> c \o s2],
                  match_single_skill(c \o s1, <<c \o s2>>))

NextNormalize == NormalizeSkill \/ MatchWritings

SpecNormalize == Init /\ [][NextNormalize]_vars

-----------------------------------------------------------------------------
(* JobAnalyzer.get_company_insight, generate_detailed_explanation and        *)
(* generate_growth_opportunities, called in any order on one analyzer.       *)
(* An insight the method returns is an entry of company_database itself, so  *)
(* insights keeps, for each call, the key of the entry returned and the      *)
(* field values the caller saw at the return.                                *)

MaxCalls == 3

CompanyNameInputs ==
    {"Google", " NETFLIX ", "Amazon Web Services", "", "Acme", "Globex", "Unknown Startup",
     "\r", "a\r"}

\* lines 212-215: the first key of the dict with key in company_key or
\* company_key in key; 0 when there is none
PartialMatch(company_key) ==
    LET hits == {i \in 1..Len(CompanyKeys) :
                    Contains(company_key, CompanyKeys[i]) \/ Contains(CompanyKeys[i], company_key)}
    IN  IF hits = {} THEN 0 ELSE MinOf(hits)

\* lines 206-220: <<the database after the call, the key of the entry returned>>
get_company_insight(database, company_name) ==
    LET company_key == Strip(Lower(company_name))
        partial == PartialMatch(company_key)
    IN  IF company_key \in SetOf(CompanyKeys) THEN <<database, company_key>>
        ELSE IF partial > 0 THEN <<database, CompanyKeys[partial]>>
        ELSE <<[database EXCEPT !["unknown"].company_name = company_name], "unknown">>

\* job_analyzer.py lines 33-41
IndustryInsight(sector, growth_rate, job_demand, average_salary_trend, future_outlook, key_trends, emerging_skills) ==
    [sector |-> sector, growth_rate |-> growth_rate, job_demand |-> job_demand,
     average_salary_trend |-> average_salary_trend, future_outlook |-> future_outlook,
     key_trends |-> key_trends, emerging_skills |-> emerging_skills]

\* lines 112-167: the dict that _load_industry_insights returns
industry_insights ==
    ("artificial intelligence" :>
        IndustryInsight("Artificial Intelligence", "high", "very high", "increasing", "excellent",
                        <<"Generative AI", "MLOps", "AI Ethics", "Edge AI">>,
                        <<"Large Language Models", "Prompt Engineering", "AI Safety">>))
    @@ ("cloud computing" :>
        IndustryInsight("Cloud Computing", "high", "very high", "increasing", "excellent",
                        <<"Multi-cloud", "Serverless", "Container orchestration", "DevOps">>,
                        <<"Kubernetes", "Terraform", "Site Reliability Engineering">>))
    @@ ("data science" :>
        IndustryInsight("Data Science", "medium", "high", "stable", "good",
                        <<"Real-time analytics", "AutoML", "Data governance", "Privacy">>,
                        <<"MLOps", "Data mesh", "Federated learning">>))
    @@ ("cybersecurity" :>
        IndustryInsight("Cybersecurity", "high", "very high", "increasing", "excellent",
                        <<"Zero trust", "Cloud security", "AI-powered threats", "Privacy">>,
                        <<"Cloud security", "Threat hunting", "Security automation">>))
    @@ ("web development" :>
        IndustryInsight("Web Development", "medium", "high", "stable", "good",
                        <<"JAMstack", "Progressive Web Apps", "WebAssembly", "Micro-frontends">>,
                        <<"React", "TypeScript", "GraphQL", "Serverless">>))
    @@ ("mobile development" :>
        IndustryInsight("Mobile Development", "medium", "medium", "stable", "fair",
                        <<"Cross-platform", "5G applications", "AR/VR", "IoT integration">>,
                        <<"Flutter", "React Native", "SwiftUI", "Kotlin Multiplatform">>))

\* the keys of the dict of _load_salary_benchmarks, in its order
BenchmarkRoles ==
    <<"data scientist", "software engineer", "machine learning engineer",
      "product manager", "data analyst">>

\* lines 171-202: the dict that _load_salary_benchmarks returns
salary_benchmarks ==
    ("data scientist" :> [entry |-> 75000, mid |-> 110000, senior |-> 150000, executive |-> 200000])
    @@ ("software engineer" :> [entry |-> 70000, mid |-> 100000, senior |-> 140000, executive |-> 180000])
    @@ ("machine learning engineer" :> [entry |-> 80000, mid |-> 120000, senior |-> 160000, executive |-> 220000])
    @@ ("product manager" :> [entry |-> 85000, mid |-> 125000, senior |-> 165000, executive |-> 250000])
    @@ ("data analyst" :> [entry |-> 55000, mid |-> 75000, senior |-> 95000, executive |-> 125000])

\* lines 227, 232, 237, 242, 247, 252: the keyword lists in the order tried,
\* each with the sector it stands for
SectorKeywords ==
    << [sector |-> "artificial intelligence",
        keywords |-> <<"ai", "artificial intelligence", "machine learning", "deep learning",
                       "neural", "tensorflow", "pytorch">>],
       [sector |-> "cloud computing",
        keywords |-> <<"cloud", "aws", "azure", "gcp", "kubernetes", "docker", "devops">>],
       [sector |-> "data science",
        keywords |-> <<"data scientist", "data analysis", "analytics", "pandas", "sql",
                       "statistics">>],
       [sector |-> "cybersecurity",
        keywords |-> <<"security", "cybersecurity", "infosec", "penetration", "vulnerability">>],
       [sector |-> "web development",
        keywords |-> <<"web developer", "frontend", "backend", "react", "angular", "vue",
                       "html", "css">>],
       [sector |-> "mobile development",
        keywords |-> <<"mobile", "ios", "android", "swift", "kotlin", "react native",
                       "flutter">>] >>

\* lines 226-255: the sector of the first list with a keyword in job_text
RECURSIVE SectorFrom(_, _)
SectorFrom(job_text, i) ==
    IF i > Len(SectorKeywords) THEN "general technology"
    ELSE IF AnyKeyword(SectorKeywords[i].keywords, job_text) THEN SectorKeywords[i].sector
    ELSE SectorFrom(job_text, i + 1)

\* lines 222-256
detect_industry_sector(job) == SectorFrom(Lower(job.title \o " " \o job.description), 1)

\* lines 258-260: dict.get, None for a sector that is no key
get_industry_insight(sector) ==
    IF Lower(sector) \in DOMAIN industry_insights THEN Some(industry_insights[Lower(sector)])
    ELSE None

\* three digits of n < 1000, with leading zeros
Pad3(n) == IntToStr(n \div 100) \o IntToStr((n \div 10) % 10) \o IntToStr(n % 10)

\* f"{n:,}" for an int n >= 0
RECURSIVE FormatThousands(_)
FormatThousands(n) ==
    IF n < 1000 THEN IntToStr(n)
    ELSE FormatThousands(n \div 1000) \o "," \o Pad3(n % 1000)

\* abs(x) of a float
FAbs(x) == <<Abs(x[1]), x[2], x[3]>>

\* the place of the first branch taken in a chain "if x >= t1 ... elif
\* x >= t2 ... else", the else being Len(thresholds) + 1
RECURSIVE FirstReached(_, _, _)
FirstReached(x, thresholds, i) ==
    IF i > Len(thresholds) THEN i
    ELSE IF FLe(F(thresholds[i]), x) THEN i
    ELSE FirstReached(x, thresholds, i + 1)

\* the salaries of a role at the user's level, or else at "mid"
BenchmarkAt(salaries, experience_level) ==
    IF experience_level \in DOMAIN salaries THEN salaries[experience_level] ELSE salaries.mid

\* lines 283-286: the benchmark of the first role of the dict that is in the
\* title; None when no role is in it
RECURSIVE BenchmarkFrom(_, _, _)
BenchmarkFrom(job_title_lower, experience_level, i) ==
    IF i > Len(BenchmarkRoles) THEN None
    ELSE IF Contains(job_title_lower, BenchmarkRoles[i])
    THEN Some(BenchmarkAt(salary_benchmarks[BenchmarkRoles[i]], experience_level))
    ELSE BenchmarkFrom(job_title_lower, experience_level, i + 1)

\* lines 295-309: status and message in the branch taken, pct being the
\* difference as the branch formats it
CompetitivenessIn(branch, pct) ==
    << [status |-> "above_market",
        message |-> "Salary is " \o pct \o "% above market average"],
       [status |-> "competitive",
        message |-> "Salary is " \o pct \o "% above market average"],
       [status |-> "market_rate", message |-> "Salary is at market rate"],
       [status |-> "below_market",
        message |-> "Salary is " \o pct \o "% below market average"],
       [status |-> "significantly_below",
        message |-> "Salary is " \o pct \o "% below market average"] >>[branch]

\* lines 295-317: the dict returned, given the branch taken
CompetitivenessOf(job_min, job_max, benchmark_salary, difference_pct, branch) ==
    CompetitivenessIn(branch,
                      Format0f(IF branch <= 2 THEN difference_pct ELSE FAbs(difference_pct)))
    @@ [job_range |-> "$" \o FormatThousands(job_min) \o " - $" \o FormatThousands(job_max),
        market_benchmark |-> "$" \o FormatThousands(benchmark_salary),
        difference_pct |-> difference_pct]

\* lines 292-317
Competitiveness(job_min, job_max, benchmark_salary, difference_pct) ==
    CompetitivenessOf(job_min, job_max, benchmark_salary, difference_pct,
                      FirstReached(difference_pct, <<15, 5, -5, -15>>, 1))

\* lines 275-317, the two numbers being ints
BenchmarkedSalary(job_min, job_max, benchmark_salary) ==
    IF benchmark_salary = None \/ benchmark_salary = Some(0)
    THEN [status |-> "unknown", message |-> "No benchmark data available"]
    ELSE Competitiveness(job_min, job_max, benchmark_salary[1],
             FMul(FDiv(F(((job_min + job_max) \div 2) - benchmark_salary[1]),
                       F(benchmark_salary[1])), F(100)))

\* lines 272-320: int() of the two numbers; its ValueError is caught
ParsedSalaryCompetitiveness(a, b, job, user_profile) ==
    IF ~IsInt(a) \/ ~IsInt(b)
    THEN [status |-> "unknown", message |-> "Error parsing salary data"]
    ELSE BenchmarkedSalary(ParseInt(a), ParseInt(b),
                           BenchmarkFrom(Lower(job.title), user_profile.experience_level, 1))

\* lines 269-320, given the numbers found in the salary text
SalaryNumbersCompetitiveness(salary_numbers, job, user_profile) ==
    IF Len(salary_numbers) < 2
    THEN [status |-> "unknown", message |-> "Cannot parse salary range"]
    ELSE ParsedSalaryCompetitiveness(RemoveChar(salary_numbers[1], ","),
                                     RemoveChar(salary_numbers[2], ","), job, user_profile)

\* lines 262-320
analyze_salary_competitiveness(job, user_profile) ==
    IF ~Truthy(job.salary_range)
    THEN [status |-> "unknown", message |-> "Salary not specified"]
    ELSE SalaryNumbersCompetitiveness(FindSalaryNumbers(job.salary_range[1], 1),
                                      job, user_profile)

\* xs when cond holds, else nothing: an append under an if
AppendIf(cond, xs) == IF cond THEN xs ELSE <<>>

\* lines 329-334: the sentence about the company
CompanySentences(job, company_insight) ==
    AppendIf(company_insight.reputation_score >= 80,
        <<job.company \o " is a well-regarded company in the " \o company_insight.industry
          \o " industry with a strong reputation for "
          \o JoinComma(SliceTo(company_insight.culture_keywords, 2)) \o ".">>)

\* lines 339-348: the sentences about the industry
IndustrySentencesOf(industry_insight) ==
    AppendIf(industry_insight.growth_rate = "high",
        <<"The " \o industry_insight.sector \o " sector is experiencing high growth with "
          \o industry_insight.job_demand \o " job demand and "
          \o industry_insight.average_salary_trend \o " salaries.">>)
    \o <<"Key industry trends include "
         \o JoinComma(SliceTo(industry_insight.key_trends, 3)) \o ".">>

\* lines 338-348
IndustrySentences(industry_insight) ==
    IF industry_insight = None THEN <<>> ELSE IndustrySentencesOf(industry_insight[1])

\* lines 352-361: the sentence about the skills in the branch taken, pct
\* being the coverage as f"{coverage:.0f}"
CoverageSentencesIn(branch, pct, skill_gaps) ==
    << <<"Your skill set covers " \o pct
         \o "% of the job requirements, indicating excellent technical fit.">>,
       <<"You meet " \o pct
         \o "% of the technical requirements, with opportunities to grow in "
         \o JoinComma(SliceTo(skill_gaps, 2)) \o ".">>,
       <<>> >>[branch]

\* lines 351-361
CoverageSentences(recommendation) ==
    CoverageSentencesIn(
        FirstReached(recommendation.skill_analysis.coverage_percentage, <<80, 60>>, 1),
        Format0f(recommendation.skill_analysis.coverage_percentage),
        recommendation.skill_gaps)

\* lines 364-367: the sentence about the experience
ProgressionSentences(score) ==
    << <<"This role aligns perfectly with your current experience level.">>,
       <<"This represents a good step forward in your career progression.">>,
       <<>> >>[FirstReached(score.experience_match_score, <<85, 70>>, 1)]

\* lines 370-372: the sentence about the salary
SalarySentences(salary_analysis) ==
    AppendIf(salary_analysis.status \in {"above_market", "competitive"},
        <<"The compensation is competitive - " \o Lower(salary_analysis.message) \o ".">>)

\* lines 337-372: the sentences after the company's, which do not read the
\* database
LaterSentences(recommendation, user_profile) ==
    IndustrySentences(get_industry_insight(detect_industry_sector(recommendation.job)))
    \o CoverageSentences(recommendation)
    \o ProgressionSentences(recommendation.score)
    \o SalarySentences(analyze_salary_competitiveness(recommendation.job, user_profile))

\* lines 321-373, given the database after line 329 with the key of the
\* insight it returned, and the later sentences: <<the database, the explanation>>
DetailedExplanationOf(insight, job, later) ==
    <<insight[1], JoinSpace(CompanySentences(job, insight[1][insight[2]]) \o later)>>

generate_detailed_explanation(database, recommendation, user_profile) ==
    DetailedExplanationOf(get_company_insight(database, recommendation.job.company),
                          recommendation.job, LaterSentences(recommendation, user_profile))

\* lines 385-393: the opportunities of the industry
IndustryOpportunitiesOf(industry_insight) ==
    AppendIf(industry_insight.future_outlook \in {"excellent", "good"},
        <<"Strong industry growth potential in " \o industry_insight.sector>>)
    \o AppendIf(industry_insight.emerging_skills # <<>>,
        <<"Opportunity to learn emerging skills: "
          \o JoinComma(SliceTo(industry_insight.emerging_skills, 3))>>)

\* lines 384-393
IndustryOpportunities(industry_insight) ==
    IF industry_insight = None THEN <<>> ELSE IndustryOpportunitiesOf(industry_insight[1])

\* lines 397-401: the opportunities of the company
CompanyOpportunities(company_insight) ==
    AppendIf(company_insight.growth_stage \in {"early", "growth"},
        <<"High growth potential at an expanding company">>)
    \o AppendIf(company_insight.company_size \in {"large", "enterprise"},
        <<"Access to diverse projects and career paths at a large organization">>)

\* lines 404-408: the opportunities of the role
RoleOpportunities(job_title_lower) ==
    AppendIf(Contains(job_title_lower, "senior"),
        <<"Leadership and mentoring opportunities">>)
    \o AppendIf(Contains(job_title_lower, "lead") \/ Contains(job_title_lower, "principal"),
        <<"Technical leadership and architecture responsibilities">>)

\* lines 380-393: the opportunities of the job's industry
SectorOpportunities(job) ==
    IndustryOpportunities(get_industry_insight(detect_industry_sector(job)))

\* lines 375-410, given the opportunities of the industry, the database after
\* line 396 with the key of the insight it returned, and the opportunities of
\* the role: <<the database, the opportunities>>
GrowthOpportunitiesOf(of_industry, insight, of_role) ==
    <<insight[1],
      SliceTo(of_industry \o CompanyOpportunities(insight[1][insight[2]]) \o of_role, 5)>>

generate_growth_opportunities(database, recommendation) ==
    GrowthOpportunitiesOf(SectorOpportunities(recommendation.job),
                          get_company_insight(database, recommendation.job.company),
                          RoleOpportunities(Lower(recommendation.job.title)))

\* the profile and the jobs whose recommendations are explained
AnalyzedProfile ==
    post_init(<<"python", "sql">>, "mid", <<"Data Scientist">>, None, None, None).profile[1]

AnalyzedJobInputs ==
    <<JobPosting("Senior Data Scientist", "Google", "Remote", "Machine learning and analytics",
                 <<"python", "sql">>, Some("senior"), Some("$150,000 - $200,000"), None),
      JobPosting("Frontend Developer", "Acme", "Austin, TX", "Build React apps",
                 <<"javascript", "react", "sql">>, None, None, None),
      JobPosting("Software Engineer", "Initech", "Remote", "Cloud platform on AWS",
                 <<"python", "aws", "sql", "docker", "go">>, Some("mid"),
                 Some("$80,000 - $90,000"), None),
      JobPosting("Data Analyst Lead", " NETFLIX ", "Remote", "Reporting for finance",
                 <<"sql", "excel">>, Some("mid"), Some("$60,000.50 - $70,000"), None)>>

\* a recommendation with what the two methods compute of it without the
\* database
AnalyzedRecommendation(recommendation, user_profile) ==
    [recommendation |-> recommendation,
     user_profile |-> user_profile,
     later |-> LaterSentences(recommendation, user_profile),
     of_industry |-> SectorOpportunities(recommendation.job),
     of_role |-> RoleOpportunities(Lower(recommendation.job.title))]

\* the recommendations of the engine for these jobs, analysed once each
AnalyzerMemo ==
    [i \in 1..Len(AnalyzedJobInputs) |->
        AnalyzedRecommendation(RecommendOne(AnalyzedProfile, AnalyzedJobInputs[i]).rec[1], AnalyzedProfile)]

AnalyzerOps ==
    {"start", "get_company_insight", "generate_detailed_explanation",
     "generate_growth_opportunities"}

\* analyzer.get_company_insight(company_name)
GetCompanyInsight ==
    /\ op \in AnalyzerOps
    /\ Len(insights) < MaxCalls
    /\ \E company_name \in CompanyNameInputs :
          LET r == get_company_insight(company_database, company_name)
          IN  /\ args' = Some(company_name)
              /\ company_database' = r[1]
              /\ ret' = Some(r[1][r[2]])
              /\ insights' = Append(insights, [entry |-> r[2], returned |-> r[1][r[2]]])
    /\ op' = "get_company_insight"
    /\ UNCHANGED <<profile, raised, jobs, top_k, recs, pool, loader>>

\* the state after a method of the analyzer that returns r[2] and leaves the
\* database r[1]; the caller gets no insight
AnalyzerReturned(name, a, r) ==
    /\ args' = Some(a)
    /\ company_database' = r[1]
    /\ ret' = Some(r[2])
    /\ op' = name
    /\ UNCHANGED <<profile, raised, jobs, top_k, recs, pool, loader, insights>>

\* generate_detailed_explanation(m.recommendation, m.user_profile)
ExplainAnalyzed(m) ==
    AnalyzerReturned("generate_detailed_explanation",
        [recommendation |-> m.recommendation, user_profile |-> m.user_profile],
        DetailedExplanationOf(
            get_company_insight(company_database, m.recommendation.job.company),
            m.recommendation.job, m.later))

\* generate_growth_opportunities(m.recommendation)
OpportunitiesOfAnalyzed(m) ==
    AnalyzerReturned("generate_growth_opportunities",
        [recommendation |-> m.recommendation],
        GrowthOpportunitiesOf(m.of_industry,
            get_company_insight(company_database, m.recommendation.job.company),
            m.of_role))

\* analyzer.generate_detailed_explanation(recommendation, user_profile)
GenerateDetailedExplanation ==
    /\ op \in AnalyzerOps
    /\ \E i \in 1..Len(AnalyzedJobInputs) : ExplainAnalyzed(AnalyzerMemo[i])

\* analyzer.generate_growth_opportunities(recommendation)
GenerateGrowthOpportunities ==
    /\ op \in AnalyzerOps
    /\ \E i \in 1..Len(AnalyzedJobInputs) : OpportunitiesOfAnalyzed(AnalyzerMemo[i])

NextCompany == GetCompanyInsight \/ GenerateDetailedExplanation \/ GenerateGrowthOpportunities

SpecCompany == Init /\ [][NextCompany]_vars

-----------------------------------------------------------------------------
(* analyze_skill_compatibility for fixed job skills while the user's skill   *)
(* list grows by one skill at a time, put in at any place of the list.       *)

MaxUserSkills == 3

AddedSkillInputs == {"python", "py", "sql", "js", "Python !"}

GrowingJobSkillInputs ==
    {<<>>, <<"python", "sql", "aws">>, <<"Python", "python", "PYTHON!">>,
     <<"javascript", "react", "js">>, <<"pythons", "mysql">>, <<"nodejs", "node">>,
     <<"pythonic", "javascript", "node.js">>}

\* list.insert(i - 1, skill)
WithSkill(user_skills, i, skill) ==
    SubSeq(user_skills, 1, i - 1) \o <<skill>> \o SubSeq(user_skills, i, Len(user_skills))

\* matcher.analyze_skill_compatibility([], job_skills)
AnalyzeNoSkills ==
    /\ op = "start"
    /\ \E j \in GrowingJobSkillInputs :
          Analyzed([user_skills |-> <<>>, job_skills |-> j, added |-> None],
                   analyze_skill_compatibility(<<>>, j))

\* the analysis again, for the same job skills and one more user skill
AnalyzeWithAdded ==
    /\ op = "analyze_skill_compatibility"
    /\ Len(args[1].user_skills) < MaxUserSkills
    /\ \E skill \in AddedSkillInputs, i \in 1..(Len(args[1].user_skills) + 1) :
          LET u == WithSkill(args[1].user_skills, i, skill)
          IN  Analyzed([user_skills |-> u, job_skills |-> args[1].job_skills,
                        added |-> Some(skill)],
                       analyze_skill_compatibility(u, args[1].job_skills))

NextGrowing == AnalyzeNoSkills \/ AnalyzeWithAdded

SpecGrowing == Init /\ [][NextGrowing]_vars

-----------------------------------------------------------------------------
(* Properties *)

Ranked == op \in {"recommend_jobs", "get_recommendations"}

Overall(rec) == rec.score.overall_score

JobsOf(rs) == [i \in 1..Len(rs) |-> rs[i].job]

\* the recommendations of rs whose overall score is s, in the order of rs
WithScore(rs, s) == SelectSeq(rs, LAMBDA r : Overall(r) = s)

IsPrefix(a, b) == Len(a) <= Len(b) /\ SubSeq(b, 1, Len(a)) = a

Count(seq, x) == Cardinality({i \in 1..Len(seq) : seq[i] = x})

\* every job of the input, scored, in input order
AllScored == RecommendAll(profile[1], jobs, <<>>).recs

NonIncreasing(rs) == \A i \in 1..Len(rs), j \in 1..Len(rs) : i < j => FLe(Overall(rs[j]), Overall(rs[i]))

\* C1: the list recommend_jobs returns is sorted non-increasing by
\* overall_score, and the returned recommendations of one overall_score are
\* in the order their jobs have in the input: their jobs are the first of the
\* input's jobs of that score, in input order.
C1_SortedStable ==
    (op = "recommend_jobs" /\ raised = "none") =>
        /\ NonIncreasing(recs)
        /\ \A i \in 1..Len(recs) :
              IsPrefix(JobsOf(WithScore(recs, Overall(recs[i]))),
                       JobsOf(WithScore(AllScored, Overall(recs[i]))))

\* recommend_jobs has returned two different jobs of equal score and two of
\* different scores
C1_Witness ==
    /\ op = "recommend_jobs"
    /\ raised = "none"
    /\ \E i \in 1..Len(recs), j \in 1..Len(recs) :
          i < j /\ Overall(recs[i]) = Overall(recs[j]) /\ recs[i].job # recs[j].job
    /\ \E i \in 1..Len(recs), j \in 1..Len(recs) :
          i < j /\ FLt(Overall(recs[j]), Overall(recs[i]))

\* the jobs of the input that are not all returned
LeftOut(all) == {i \in 1..Len(all) : Count(JobsOf(recs), all[i].job) < Count(jobs, all[i].job)}

\* C2: for every job list and every top_k >= 0, recommend_jobs returns without
\* raising exactly min(top_k, len(jobs)) recommendations, no job left out
\* scores strictly higher than a returned one, and zero jobs give the empty list.
C2_TopKReturned ==
    (op = "recommend_jobs" /\ top_k # None /\ top_k[1] >= 0) =>
        /\ raised = "none"
        /\ Len(recs) = Min2(top_k[1], Len(jobs))
        /\ \A i \in LeftOut(AllScored), j \in 1..Len(recs) :
              FLe(Overall(AllScored[i]), Overall(recs[j]))
        /\ (jobs = <<>> => recs = <<>>)

\* recommend_jobs with top_k = 1 has raised ZeroDivisionError
C2_Witness ==
    /\ op = "recommend_jobs"
    /\ top_k = Some(1)
    /\ Len(jobs) >= 1
    /\ raised = "ZeroDivisionError"

\* C3 as stated: when top_k is unset or exceeds the number of jobs, the
\* recommendation call (recommend_jobs or get_recommendations) returns
\* exactly len(jobs) recommendations.
C3_AllReturned ==
    (Ranked /\ (top_k = None \/ top_k[1] > Len(jobs))) =>
        raised = "none" /\ Len(recs) = Len(jobs)

\* recommend_jobs without top_k has returned five of six jobs
C3_Witness ==
    /\ op = "recommend_jobs"
    /\ top_k = None
    /\ raised = "none"
    /\ Len(jobs) = 6
    /\ Len(recs) = 5

InRange(x) == FLe(F(0), x) /\ FLe(x, F(100))

SubScoresOf(s) ==
    <<s.skill_score, s.role_relevance_score, s.experience_match_score,
      s.growth_score, s.location_score, s.salary_score>>

WeightedSum(s) ==
    FAdd(FAdd(FAdd(FAdd(FAdd(
        FMul(Lit(35, 100), s.skill_score),
        FMul(Lit(25, 100), s.role_relevance_score)),
        FMul(Lit(15, 100), s.experience_match_score)),
        FMul(Lit(15, 100), s.growth_score)),
        FMul(Lit(5, 100), s.location_score)),
        FMul(Lit(5, 100), s.salary_score))

WeighedRight(s) ==
    /\ s.overall_score = WeightedSum(s)
    /\ (\A i \in 1..6 : InRange(SubScoresOf(s)[i])) => InRange(s.overall_score)

\* C4: the overall_score of every recommendation, and of every JobScore built
\* from six sub-scores, is 0.35*skill + 0.25*role_relevance +
\* 0.15*experience_match + 0.15*growth + 0.05*location + 0.05*salary; the six
\* weights sum to 1; and overall_score is in [0,100] when the six sub-scores are.
C4_WeightedSum ==
    /\ FAdd(FAdd(FAdd(FAdd(FAdd(weights.skill_match, weights.role_relevance),
            weights.experience_match), weights.growth_potential),
            weights.location_match), weights.salary_match) = F(1)
    /\ (op = "JobScore" => WeighedRight(ret[1]))
    /\ (Ranked => \A i \in 1..Len(recs) : WeighedRight(recs[i].score))

\* a JobScore of six sub-scores of 100, whose overall score is 100
C4_Witness ==
    /\ op = "JobScore"
    /\ \A i \in 1..6 : SubScoresOf(ret[1])[i] = F(100)
    /\ ret[1].overall_score = F(100)

\* the salary range of the constructed profile is present with min <= max
RangeOrdered == profile[1].salary_range # None /\ profile[1].salary_range[1].min <= profile[1].salary_range[1].max

SalaryScored == op = "calculate_salary_score"

\* C5: calculate_salary_score never raises: for every profile salary range
\* with min <= max, min = max included, and every job salary text it returns
\* a score.
C5_SalaryNeverRaises ==
    (SalaryScored /\ (profile[1].salary_range = None \/ RangeOrdered)) => raised = "none"

\* calculate_salary_score has raised ZeroDivisionError for a profile whose
\* range has min = max
C5_Witness ==
    /\ SalaryScored
    /\ RangeOrdered
    /\ profile[1].salary_range[1].min = profile[1].salary_range[1].max
    /\ raised = "ZeroDivisionError"

Reversed(range) == range # None /\ range[1].min > range[1].max

\* C6: constructing a UserProfile whose salary range has min > max fails with
\* a validation error, and no profile with min > max reaches the scoring
\* functions.
C6_ReversedRangeRejected ==
    /\ (op = "UserProfile" /\ Reversed(args[1].salary_range)) => raised = "ValueError"
    /\ (Ranked => ~Reversed(profile[1].salary_range))

\* UserProfile(...) with min > max has returned a profile
C6_Witness ==
    /\ op = "UserProfile"
    /\ Reversed(args[1].salary_range)
    /\ raised = "none"
    /\ profile # None
    /\ Reversed(profile[1].salary_range)

\* two characters that are equal, or the same letter in different case
SameLetter(c, d) ==
    \/ c = d
    \/ \E k \in 1..Len(UpperChars) :
          {c, d} = {CharAt(UpperChars, k), CharAt(LowerChars, k)}

EqualsIgnoreCase(a, b) ==
    Len(a) = Len(b) /\ \A i \in 1..Len(a) : SameLetter(CharAt(a, i), CharAt(b, i))

NoUpperCase(s) == \A i \in 1..Len(s) : IndexOf(CharAt(s, i), UpperChars, 1) = 0

\* trimmed, lowercased and non-empty
Cleaned(s) ==
    /\ Len(s) > 0
    /\ CharAt(s, 1) \notin Whitespace
    /\ CharAt(s, Len(s)) \notin Whitespace
    /\ NoUpperCase(s)

\* C7: UserProfile(...) raises a validation error if and only if the
\* experience level, compared case-insensitively, is none of entry, mid,
\* senior, executive; after a successful construction experience_level is the
\* lowercase form of the argument and every skill and preferred role is
\* trimmed, lowercased and non-empty.
C7_ExperienceValidated ==
    op = "UserProfile" =>
        /\ raised \in {"none", "ValueError"}
        /\ (raised = "ValueError") <=>
              ~(\E v \in {"entry", "mid", "senior", "executive"} :
                   EqualsIgnoreCase(args[1].experience_level, v))
        /\ (raised = "ValueError") => profile = None
        /\ (raised = "none") =>
              /\ profile # None
              /\ EqualsIgnoreCase(profile[1].experience_level, args[1].experience_level)
              /\ NoUpperCase(profile[1].experience_level)
              /\ \A i \in 1..Len(profile[1].skills) : Cleaned(profile[1].skills[i])
              /\ \A i \in 1..Len(profile[1].preferred_roles) :
                    Cleaned(profile[1].preferred_roles[i])

\* UserProfile(...) has accepted "SeNiOr" and dropped a blank skill
C7_Witness ==
    /\ op = "UserProfile"
    /\ raised = "none"
    /\ args[1].experience_level = "SeNiOr"
    /\ profile[1].experience_level = "senior"
    /\ args[1].skills = <<"Python", " SQL ", "">>
    /\ profile[1].skills = <<"python", "sql">>

\* sub in s, compared case-insensitively
ContainsIgnoreCase(s, sub) ==
    \E i \in 1..(Len(s) - Len(sub) + 1) :
        EqualsIgnoreCase(SubSeq(s, i, i + Len(sub) - 1), sub)

LocationScored == op = "calculate_location_score"

RemoteJob == LocationScored /\ ContainsIgnoreCase(jobs[1].location, "remote")

\* C8 as stated: for every job whose location contains "remote",
\* calculate_location_score returns 100 whatever the profile location is,
\* unset included.
C8_RemoteAlways100 == RemoteJob => ret = Some(F(100))

\* C8 amended: for every job whose location contains "remote",
\* calculate_location_score returns 100 for every profile location that is
\* set and non-empty, and the neutral 75 when the profile location is unset or
\* empty.
C8_RemoteWhenLocated ==
    RemoteJob =>
        /\ raised = "none"
        /\ (profile[1].location \notin {None, Some("")}) => ret = Some(F(100))
        /\ (profile[1].location \in {None, Some("")}) => ret = Some(F(75))

\* a remote job has scored 100 for a profile located elsewhere
C8_Witness ==
    /\ LocationScored
    /\ jobs[1].location = "REMOTE - US"
    /\ profile[1].location = Some("Paris")
    /\ ret = Some(F(100))

\* C9: calculate_salary_score returns a value in [0,100] for every profile
\* salary range with min <= max and every job salary text, whatever the order
\* and size of the two numbers in the text.
C9_SalaryInRange ==
    (SalaryScored /\ RangeOrdered) => (ret # None /\ InRange(ret[1]))

\* calculate_salary_score has returned no value for the range 100000..100000
\* and the text "$100,000 - $100,000"
C9_Witness ==
    /\ SalaryScored
    /\ profile[1].salary_range = SalaryRange(100000, 100000)
    /\ jobs[1].salary_range = Some("$100,000 - $100,000")
    /\ ret = None

\* the two numbers of the job's salary text, when two are available as
\* integers: <<job_min, job_max>>, else <<>>
JobNumbers(text) ==
    IF text = None \/ Len(FindSalaryNumbers(text[1], 1)) < 2 THEN <<>>
    ELSE IF IsInt(RemoveChar(FindSalaryNumbers(text[1], 1)[1], ","))
            /\ IsInt(RemoveChar(FindSalaryNumbers(text[1], 1)[2], ","))
    THEN <<ParseInt(RemoveChar(FindSalaryNumbers(text[1], 1)[1], ",")),
           ParseInt(RemoveChar(FindSalaryNumbers(text[1], 1)[2], ","))>>
    ELSE <<>>

\* the score C10 states for the intervals [job_min, job_max] and
\* [user_min, user_max], both with min <= max; <<>> where the quotient of the
\* overlap rule is undefined
StatedSalaryScore(job_min, job_max, user_min, user_max) ==
    IF job_max < user_min THEN Some(F(20))
    ELSE IF job_min > user_max THEN Some(F(40))
    ELSE IF user_max = user_min THEN None
    ELSE Some(FMin(F(100),
                   FAdd(F(80), FMul(F(20),
                       FDiv(F(Min2(job_max, user_max) - Max2(job_min, user_min)),
                            F(user_max - user_min))))))

\* C10: with a profile range and two job numbers, each with min <= max: when
\* the intervals overlap the salary score is
\* min(100, 80 + 20*overlap_size/user_range_size); when the job range is
\* entirely below the user range it is 20; entirely above, 40; when either side
\* is absent or fewer than two numbers parse it is 75; and for
\* "$90,000 - $130,000" with the range 80000..120000 it is 95.
C10_SalaryFormula ==
    SalaryScored =>
        /\ (profile[1].salary_range = None \/ jobs[1].salary_range = None
            \/ Len(FindSalaryNumbers(jobs[1].salary_range[1], 1)) < 2)
              => ret = Some(F(75))
        /\ (RangeOrdered /\ JobNumbers(jobs[1].salary_range) # <<>>
            /\ JobNumbers(jobs[1].salary_range)[1] <= JobNumbers(jobs[1].salary_range)[2])
              => /\ ret # None
                 /\ ret = StatedSalaryScore(JobNumbers(jobs[1].salary_range)[1],
                                            JobNumbers(jobs[1].salary_range)[2],
                                            profile[1].salary_range[1].min,
                                            profile[1].salary_range[1].max)
        /\ (profile[1].salary_range = SalaryRange(80000, 120000)
            /\ jobs[1].salary_range = Some("$90,000 - $130,000"))
              => ret = Some(F(95))

\* the overlap rule has raised ZeroDivisionError for the range 100000..100000
\* and the text "$90,000 - $130,000"
C10_Witness ==
    /\ SalaryScored
    /\ profile[1].salary_range = SalaryRange(100000, 100000)
    /\ jobs[1].salary_range = Some("$90,000 - $130,000")
    /\ raised = "ZeroDivisionError"

ExperienceScored == op = "calculate_experience_match_score"

\* the 1-based place of a level on the scale entry, mid, senior, executive,
\* compared case-insensitively; 0 for a level not on it
ScalePlace(level) ==
    IF EqualsIgnoreCase(level, "entry") THEN 1
    ELSE IF EqualsIgnoreCase(level, "mid") THEN 2
    ELSE IF EqualsIgnoreCase(level, "senior") THEN 3
    ELSE IF EqualsIgnoreCase(level, "executive") THEN 4
    ELSE 0

\* the score C11's decision list gives a user level and a job level
StatedExperienceScore(user_level, job_level) ==
    IF job_level \in {None, Some("")} THEN F(75)
    ELSE IF EqualsIgnoreCase(user_level, job_level[1]) THEN F(100)
    ELSE IF \E i \in 1..Len(experience_mapping[user_level]) :
               ContainsIgnoreCase(job_level[1], experience_mapping[user_level][i])
    THEN F(90)
    ELSE IF ScalePlace(job_level[1]) = 0 THEN F(50)
    ELSE IF ScalePlace(user_level) - ScalePlace(job_level[1]) = 1 THEN F(85)
    ELSE IF ScalePlace(job_level[1]) - ScalePlace(user_level) = 1 THEN F(70)
    ELSE IF Abs(ScalePlace(user_level) - ScalePlace(job_level[1])) = 2 THEN F(40)
    ELSE F(20)

\* C11: calculate_experience_match_score follows the decision list in order:
\* job level absent -> 75; levels equal -> 100; the job level text contains a
\* keyword of the user's level -> 90; on the scale at distance 1 -> 85 when the
\* user is more senior and 70 when less, at distance 2 -> 40, at 3 or more ->
\* 20; job level not on the scale -> 50; user mid with job senior gives 70; and
\* the result is one of 20, 40, 50, 70, 75, 85, 90, 100.
C11_ExperienceDecisionList ==
    ExperienceScored =>
        /\ raised = "none"
        /\ ret = Some(StatedExperienceScore(profile[1].experience_level,
                                            jobs[1].experience_level))
        /\ ret[1] \in {F(20), F(40), F(50), F(70), F(75), F(85), F(90), F(100)}
        /\ (profile[1].experience_level = "mid" /\ jobs[1].experience_level = Some("senior"))
              => ret = Some(F(70))

\* a mid-level user has scored 70 on a senior job
C11_Witness ==
    /\ ExperienceScored
    /\ profile[1].experience_level = "mid"
    /\ jobs[1].experience_level = Some("senior")
    /\ ret = Some(F(70))


\* the comma-separated segments of a location, lowercased and trimmed
Segments(location) == [i \in 1..Len(Split(Lower(location), ",")) |-> Strip(Split(Lower(location), ",")[i])]

\* both locations set, the job's without "remote"
BothLocated ==
    /\ LocationScored
    /\ profile[1].location \notin {None, Some("")}
    /\ jobs[1].location # ""
    /\ ~ContainsIgnoreCase(jobs[1].location, "remote")

EitherContains(a, b) == Contains(Lower(a), Lower(b)) \/ Contains(Lower(b), Lower(a))

\* the score C12 states, for the segments compared as they are after trimming
StatedLocationScore(user_location, job_location) ==
    IF EitherContains(user_location, job_location) THEN F(100)
    ELSE IF Segments(user_location)[1] = Segments(job_location)[1] THEN F(90)
    ELSE IF Last(Segments(user_location)) = Last(Segments(job_location)) THEN F(60)
    ELSE F(30)

\* the same with the last segments compared only when both locations have
\* more than one segment
GuardedLocationScore(user_location, job_location) ==
    IF EitherContains(user_location, job_location) THEN F(100)
    ELSE IF Segments(user_location)[1] = Segments(job_location)[1] THEN F(90)
    ELSE IF Len(Segments(user_location)) > 1 /\ Len(Segments(job_location)) > 1
            /\ Last(Segments(user_location)) = Last(Segments(job_location)) THEN F(60)
    ELSE F(30)

EitherUnlocated ==
    LocationScored /\ (profile[1].location \in {None, Some("")} \/ jobs[1].location = "")

\* C12 as stated: with both locations set and no "remote" in the job's,
\* calculate_location_score returns 100 if one lowercased location is a
\* substring of the other, otherwise 90 if the first comma-separated segments
\* are equal, otherwise 60 if the last segments are equal, otherwise 30; and
\* 75 when either location is unset.
C12_LocationRules ==
    /\ BothLocated => ret = Some(StatedLocationScore(profile[1].location[1], jobs[1].location))
    /\ EitherUnlocated => ret = Some(F(75))

\* C12 amended: as stated, with the segments trimmed before they are
\* compared, and 60 only if both locations have more than one
\* comma-separated segment.
C12_LocationRulesGuarded ==
    /\ BothLocated => ret = Some(GuardedLocationScore(profile[1].location[1], jobs[1].location))
    /\ EitherUnlocated => ret = Some(F(75))

\* "Dallas,TX" has scored 60 against "Houston, TX": equal last segments
C12_Witness ==
    /\ LocationScored
    /\ profile[1].location = Some("Dallas,TX")
    /\ jobs[1].location = "Houston, TX"
    /\ ret = Some(F(60))


RoleScored == op = "calculate_role_relevance_score"

\* what C13 has one preferred role contribute for a job title: the share of
\* the role's words that are title words, times 80, in doubles
StatedRoleContribution(role, title) ==
    IF Contains(Lower(title), Lower(role)) THEN F(100)
    ELSE FMul(FDiv(F(Cardinality(Words(Lower(role)) \cap Words(Lower(title)))),
                   F(Cardinality(Words(Lower(role))))), F(80))

\* the contributions added in the order of the roles, from 0.0
RECURSIVE StatedRoleSum(_, _, _)
StatedRoleSum(roles, title, sum) ==
    IF roles = <<>> THEN sum
    ELSE StatedRoleSum(Tail(roles), title, FAdd(sum, StatedRoleContribution(Head(roles), title)))

\* the sum over (the number of roles x 100), as a percentage
StatedRoleAverage(roles, title) ==
    FMul(FDiv(StatedRoleSum(roles, title, F(0)), F(Len(roles) * 100)), F(100))

\* C13: calculate_role_relevance_score returns the average over the preferred
\* roles of the per-role contribution: 100 for a role that is a substring of
\* the lowercased title, otherwise 80 * (role words that are title words) /
\* (role words); 0 without preferred roles; always in [0,100], and 100 only
\* if every preferred role is a substring of the title. The average is the
\* double the accumulation gives: the contributions summed in role order,
\* divided by the number of roles x 100, times 100.
C13_RoleAverage ==
    RoleScored =>
        /\ raised = "none"
        /\ (profile[1].preferred_roles = <<>>) => ret = Some(F(0))
        /\ (profile[1].preferred_roles # <<>>) =>
              ret = Some(StatedRoleAverage(profile[1].preferred_roles, jobs[1].title))
        /\ InRange(ret[1])
        /\ (ret = Some(F(100))) =>
              \A i \in 1..Len(profile[1].preferred_roles) :
                  Contains(Lower(jobs[1].title), profile[1].preferred_roles[i])

\* two preferred roles, one a substring of the title and one sharing one of
\* its two words with it, have scored (100 + 40) / 2 = 70
C13_Witness ==
    /\ RoleScored
    /\ profile[1].preferred_roles = <<"data scientist", "ml engineer">>
    /\ jobs[1].title = "Data Scientist Engineer"
    /\ ret = Some(F(70))


SkillScored == op = "calculate_skill_score"

\* min(100, overall_match_score * 100 + (coverage_percentage / 100) * 10)
StatedSkillScore(analysis) ==
    FMin(F(100), FAdd(FMul(analysis.overall_match_score, F(100)),
                      FMul(FDiv(analysis.coverage_percentage, F(100)), F(10))))

\* C14: calculate_skill_score returns min(100, overall_match_score * 100 +
\* (coverage_percentage / 100) * 10) together with the SkillAnalysis of the
\* profile's skills and the job's required skills that it was computed from,
\* and the score is in [0,100] for all inputs.
C14_SkillScore ==
    SkillScored =>
        /\ raised = "none"
        /\ ret[1].skill_analysis =
              analyze_skill_compatibility(profile[1].skills, jobs[1].skills_required)
        /\ ret[1].skill_score = StatedSkillScore(ret[1].skill_analysis)
        /\ InRange(ret[1].skill_score)

\* two of three required skills matched exactly: 66.67 + 6.67 = 73.33
C14_Witness ==
    /\ SkillScored
    /\ profile[1].skills = <<"python", "sql">>
    /\ jobs[1].skills_required = <<"python", "sql", "aws">>
    /\ FLe(Lit(7333, 100), ret[1].skill_score)
    /\ FLt(ret[1].skill_score, Lit(7334, 100))


SkillsAnalyzed == op = "analyze_skill_compatibility"

\* C15: for every user skill list U, analyze_skill_compatibility(U, empty
\* job skills) has overall_match_score 1.0 and coverage_percentage 100.0, no
\* matched skills, no missing skills, and additional_skills equal to U.
C15_NoJobSkills ==
    (SkillsAnalyzed /\ args[1].job_skills = <<>>) =>
        /\ ret[1].overall_match_score = F(1)
        /\ ret[1].coverage_percentage = F(100)
        /\ ret[1].matched_skills = <<>>
        /\ ret[1].missing_skills = <<>>
        /\ ret[1].additional_skills = args[1].user_skills

\* a user list with a repeated skill analysed against no job skills
C15_Witness ==
    /\ SkillsAnalyzed
    /\ args[1].job_skills = <<>>
    /\ args[1].user_skills = <<"Python", " SQL ", "python">>
    /\ ret[1].additional_skills = <<"Python", " SQL ", "python">>
    /\ ret[1].coverage_percentage = F(100)


\* the synonym set of a normalized skill name
SynonymsOf(n) == IF n \in DOMAIN skill_synonyms THEN skill_synonyms[n] ELSE {}

\* what C16 has a pair of normalized skills match as: <<type, score>> or <<>>
StatedMatch(nu, nj) ==
    IF nu = nj THEN <<"exact", F(1)>>
    ELSE IF nj \in SynonymsOf(nu) THEN <<"synonym", Lit(95, 100)>>
    ELSE IF FLe(Lit(8, 10), SequenceRatio(nu, nj)) THEN <<"fuzzy", SequenceRatio(nu, nj)>>
    ELSE <<>>

\* the records of matched that are about the normalized pair nu, nj
RecordsOf(matched, nu, nj) ==
    {i \in 1..Len(matched) : /\ normalize_skill(matched[i].user_skill) = nu
                             /\ normalize_skill(matched[i].job_skill) = nj}

\* the pair nu, nj is recorded in matched as C16 states: not at all, or once
\* with the stated type and score
RecordedAsStated(matched, nu, nj) ==
    IF StatedMatch(nu, nj) = <<>> THEN RecordsOf(matched, nu, nj) = {}
    ELSE /\ Cardinality(RecordsOf(matched, nu, nj)) = 1
         /\ \A i \in RecordsOf(matched, nu, nj) :
               /\ matched[i].match_type = StatedMatch(nu, nj)[1]
               /\ matched[i].match_score = StatedMatch(nu, nj)[2]

\* C16: for every (user skill, job skill) pair at most one match is recorded,
\* by priority: exact with score 1.0 when the normalized strings are equal,
\* else synonym with score 0.95 when the normalized job skill is a synonym of
\* the normalized user skill, else fuzzy with the similarity as score when it
\* is at least 0.8, else nothing; each normalized pair appears once in the
\* analysis, and every recorded score is between 0.8 and 1.0.
C16_MatchPriority ==
    SkillsAnalyzed =>
        /\ \A i \in 1..Len(args[1].user_skills), j \in 1..Len(args[1].job_skills) :
              RecordedAsStated(ret[1].matched_skills,
                               normalize_skill(args[1].user_skills[i]),
                               normalize_skill(args[1].job_skills[j]))
        /\ \A m \in 1..Len(ret[1].matched_skills) :
              /\ InSeq(ret[1].matched_skills[m].user_skill, args[1].user_skills)
              /\ InSeq(ret[1].matched_skills[m].job_skill, args[1].job_skills)
              /\ FLe(Lit(8, 10), ret[1].matched_skills[m].match_score)
              /\ FLe(ret[1].matched_skills[m].match_score, F(1))

\* "postgres" against "postgresql", a synonym that is also similar enough for
\* a fuzzy match, is recorded once as a synonym, and "mongo" against
\* "mongodb" with it
C16_Witness ==
    /\ SkillsAnalyzed
    /\ args[1].user_skills = <<"postgres", "mongo">>
    /\ args[1].job_skills = <<"postgresql", "mongodb">>
    /\ ret[1].matched_skills =
          << [user_skill |-> "postgres", job_skill |-> "postgresql",
              match_score |-> Lit(95, 100), match_type |-> "synonym"],
             [user_skill |-> "mongo", job_skill |-> "mongodb",
              match_score |-> Lit(95, 100), match_type |-> "synonym"] >>


\* the normalized job skills, or user skills, of the records of matched
MatchedJobSkills(matched) ==
    {normalize_skill(matched[i].job_skill) : i \in 1..Len(matched)}

MatchedUserSkills(matched) ==
    {normalize_skill(matched[i].user_skill) : i \in 1..Len(matched)}

\* the positions of skills whose normalized skill is not in matched
UnmatchedPlaces(skills, matched) ==
    {i \in 1..Len(skills) : normalize_skill(skills[i]) \notin matched}

\* list holds the skills at the given places, in the order of the places
RECURSIVE KeepsPlaces(_, _, _)
KeepsPlaces(list, skills, places) ==
    IF places = {} THEN list = <<>>
    ELSE /\ list # <<>>
         /\ Head(list) = skills[MinOf(places)]
         /\ KeepsPlaces(Tail(list), skills, places \ {MinOf(places)})

\* C17: in every SkillAnalysis a job skill is in missing_skills if and only
\* if no record of matched_skills has its normalized job skill, a user skill
\* is in additional_skills if and only if no record of matched_skills has its
\* normalized user skill, and both lists keep the input order.
C17_MissingAndAdditional ==
    SkillsAnalyzed =>
        /\ KeepsPlaces(ret[1].missing_skills, args[1].job_skills,
                       UnmatchedPlaces(args[1].job_skills,
                                       MatchedJobSkills(ret[1].matched_skills)))
        /\ KeepsPlaces(ret[1].additional_skills, args[1].user_skills,
                       UnmatchedPlaces(args[1].user_skills,
                                       MatchedUserSkills(ret[1].matched_skills)))

\* "JavaScript" is matched by "js" under its normalized name, "React.js" is
\* missing, and "react" is additional
C17_Witness ==
    /\ SkillsAnalyzed
    /\ args[1].user_skills = <<"js", "react">>
    /\ args[1].job_skills = <<"JavaScript", "React.js">>
    /\ ret[1].missing_skills = <<"React.js">>
    /\ ret[1].additional_skills = <<"react">>


\* the sum of match_score over the first n records of matched
RECURSIVE ScoreSum(_, _)
ScoreSum(matched, n) ==
    IF n = 0 THEN F(0) ELSE FAdd(ScoreSum(matched, n - 1), matched[n].match_score)

\* C18: for non-empty job skills, overall_match_score is min(1.0, sum of
\* match_score over the deduplicated matched_skills / number of job skills),
\* and so is in [0,1].
C18_OverallMatchScore ==
    (SkillsAnalyzed /\ args[1].job_skills # <<>>) =>
        /\ ret[1].overall_match_score =
              FMin(F(1), FDiv(ScoreSum(ret[1].matched_skills, Len(ret[1].matched_skills)),
                              F(Len(args[1].job_skills))))
        /\ FLe(F(0), ret[1].overall_match_score)
        /\ FLe(ret[1].overall_match_score, F(1))

\* two user skills match the one job skill, with scores 0.8 and 1.0, and the
\* overall score is capped at 1.0
C18_Witness ==
    /\ SkillsAnalyzed
    /\ args[1].user_skills = <<"javascript", "node.js">>
    /\ args[1].job_skills = <<"node.js">>
    /\ ScoreSum(ret[1].matched_skills, Len(ret[1].matched_skills)) = Lit(9, 5)
    /\ ret[1].overall_match_score = F(1)


\* the user skills python, sql against the job skills python, sql, aws
TwoOfThree ==
    /\ SkillsAnalyzed
    /\ args[1].user_skills = <<"python", "sql">>
    /\ args[1].job_skills = <<"python", "sql", "aws">>

\* the share n / total as a percentage, in doubles
PercentOf(n, total) == FMul(FDiv(F(n), F(total)), F(100))

\* x is 66.67 when written with two decimals
Is6667(x) == FLe(Lit(66665, 1000), x) /\ FLt(x, Lit(66675, 1000))

\* C19: coverage_percentage is 100 * (distinct matched job skills) / (total
\* job skills) and lies in [0,100]; for no user skills and some job skills it
\* is 0 with every job skill missing; for the user skills python, sql and the
\* job skills python, sql, aws it is two of three, 66.67 to two decimals, with
\* missing_skills = [aws].
C19_Coverage ==
    /\ (SkillsAnalyzed /\ args[1].job_skills # <<>>) =>
          /\ ret[1].coverage_percentage =
                PercentOf(Cardinality(MatchedJobSkills(ret[1].matched_skills)),
                          Len(args[1].job_skills))
          /\ InRange(ret[1].coverage_percentage)
          /\ (args[1].user_skills = <<>>) =>
                /\ ret[1].coverage_percentage = F(0)
                /\ ret[1].missing_skills = args[1].job_skills
    /\ SkillsAnalyzed => InRange(ret[1].coverage_percentage)
    /\ TwoOfThree =>
          /\ ret[1].coverage_percentage = PercentOf(2, 3)
          /\ Is6667(ret[1].coverage_percentage)
          /\ ret[1].missing_skills = <<"aws">>

\* the scenario of two matched skills of three has been analysed
C19_Witness ==
    /\ TwoOfThree
    /\ Len(ret[1].matched_skills) = 2
    /\ ret[1].coverage_percentage = PercentOf(2, 3)
    /\ ret[1].missing_skills = <<"aws">>


SynonymsLoaded == op = "_load_skill_synonyms"

SkillMatched == op = "match_single_skill"

\* b is in the synonym set that table holds for a
SynonymIn(table, a, b) == a \in DOMAIN table /\ b \in table[a]

\* the names that table holds as keys or as synonyms
NamesOf(table) == (DOMAIN table) \cup UNION {table[a] : a \in DOMAIN table}

\* the match of a call is a synonym match
IsSynonymMatch(matches) == matches # <<>> /\ matches[1].match_type = "synonym"

\* C20: the synonym table built by _load_skill_synonyms is bidirectional: for
\* all skills a and b, b is in the synonym set of a if and only if a is in the
\* synonym set of b, so that a synonym match between a user skill and a job
\* skill does not depend on which side holds which name.
C20_Bidirectional ==
    /\ SynonymsLoaded =>
          \A a \in NamesOf(ret[1]), b \in NamesOf(ret[1]) :
              SynonymIn(ret[1], a, b) <=> SynonymIn(ret[1], b, a)
    /\ SkillMatched =>
          (IsSynonymMatch(ret[1])
             <=> IsSynonymMatch(match_single_skill(args[1].job_skill, <<args[1].user_skill>>)))


\* the table has been built, "node.js" is a synonym of "js" and of
\* "ecmascript", and neither is a synonym of "node.js"
C20_Witness ==
    /\ SynonymsLoaded
    /\ SynonymIn(ret[1], "js", "node.js") /\ ~SynonymIn(ret[1], "node.js", "js")
    /\ SynonymIn(ret[1], "ecmascript", "node.js")
    /\ ~SynonymIn(ret[1], "node.js", "ecmascript")
    /\ ret[1]["node.js"] = {"nodejs", "node", "javascript"}


\* one job has been recommended alone
RecommendedOne == op = "recommend_jobs" /\ Len(jobs) = 1 /\ Len(recs) = 1

\* a text that starts with prefix is in the list
HasPrefixed(list, prefix) ==
    \E i \in 1..Len(list) :
        Len(list[i]) >= Len(prefix) /\ SubSeq(list[i], 1, Len(prefix)) = prefix

\* the rule of one sub-score: its pro is in pros exactly at or above hi, its
\* con is in cons exactly below lo, and so neither between the two
RuleApplied(rec, sub_score, hi, pro, lo, con) ==
    /\ HasPrefixed(rec.pros, pro) <=> FLe(F(hi), sub_score)
    /\ HasPrefixed(rec.cons, con) <=> FLt(sub_score, F(lo))
    /\ ~(HasPrefixed(rec.pros, pro) /\ HasPrefixed(rec.cons, con))
    /\ (FLe(F(lo), sub_score) /\ FLt(sub_score, F(hi))) =>
          (~HasPrefixed(rec.pros, pro) /\ ~HasPrefixed(rec.cons, con))

RulesApplied(rec) ==
    /\ RuleApplied(rec, rec.score.skill_score, 80, "Strong skill match (",
                   50, "Significant skill gaps to address")
    /\ RuleApplied(rec, rec.score.experience_match_score, 85,
                   "Perfect experience level match", 50, "Experience level mismatch")
    /\ RuleApplied(rec, rec.score.growth_score, 80, "High-growth industry/technology",
                   40, "Limited growth potential in this area")
    /\ RuleApplied(rec, rec.score.location_score, 90, "Excellent location match",
                   40, "Location may not be ideal")
    /\ RuleApplied(rec, rec.score.salary_score, 80, "Competitive salary range",
                   40, "Salary may not meet expectations")
    /\ HasPrefixed(rec.pros, "Remote work opportunity") <=> (rec.job.work_type = Some("remote"))

\* C21: generate_pros_and_cons applies each threshold rule on its own: skill
\* score >= 80 the pro and < 50 the con, experience >= 85 and < 50, growth
\* >= 80 and < 40, location >= 90 and < 40, salary >= 80 and < 40, and the
\* work type "remote" its pro; no sub-score has both its pro and its con, and
\* one strictly between its thresholds has neither.
C21_ProsAndCons == RecommendedOne => RulesApplied(recs[1])

\* a job whose salary score is exactly 80 and whose location score is below
\* 40 has the salary pro and the location con, and neither for its skill
\* score of 55
C21_Witness ==
    /\ RecommendedOne
    /\ recs[1].score.salary_score = F(80)
    /\ recs[1].score.skill_score = F(55)
    /\ FLt(recs[1].score.location_score, F(40))
    /\ HasPrefixed(recs[1].pros, "Competitive salary range")
    /\ HasPrefixed(recs[1].cons, "Location may not be ideal")
    /\ ~HasPrefixed(recs[1].pros, "Strong skill match (")
    /\ ~HasPrefixed(recs[1].cons, "Significant skill gaps to address")


PoolRuns == op = "pool"

\* the score and the analysis that the job gets when it is scored alone
ScoredAlone(user_profile, job) ==
    [score |-> JobScore(calculate_skill_score(user_profile, job).skill_score,
                        calculate_role_relevance_score(user_profile, job),
                        calculate_experience_match_score(user_profile, job),
                        calculate_growth_score(job),
                        calculate_location_score(user_profile, job),
                        calculate_salary_score(user_profile, job).val),
     skill_analysis |-> analyze_skill_compatibility(user_profile.skills, job.skills_required)]

\* every job scored so far got what it gets alone
ScoredAsAlone ==
    \A i \in 1..Len(scored) :
        scored[i] # None => scored[i][1] = ScoredAlone(profile[1], jobs[i])

\* a step of a running pool leaves the engine's tables, the profile and the
\* job list as they are
PoolWritesNothing ==
    PoolRuns => (engine' = engine /\ profile' = profile /\ jobs' = jobs)

\* C22: scoring is free of side effects and safe under concurrency: when
\* several workers score jobs against one shared engine, in every
\* interleaving each job gets the JobScore and SkillAnalysis that it gets when
\* scored alone, and no step writes the weights, the keyword, experience and
\* synonym tables, the profile or the input job list.
C22_ConcurrentScoring ==
    /\ [](PoolRuns => (ScoredAsAlone /\ engine = EngineFields))
    /\ [][PoolWritesNothing]_vars

\* the first job is scored, its worker is in the middle of its next job, and
\* the other worker is still in the middle of its first
C22_Witness ==
    /\ PoolRuns
    /\ Len(jobs) = 4
    /\ scored[1] # None /\ scored[2] = None
    /\ workers[1].job = 3 /\ workers[1].pc = "growth"
    /\ workers[2].job = 2 /\ workers[2].pc = "experience"
    /\ scored[1][1].score.overall_score = ScoredAlone(profile[1], jobs[1]).score.overall_score


OcrExtracted == op = "extract_ocr"

\* the backend that extract_ocr tries first: EasyOCR when its reader is
\* present, else Tesseract when available, else none
FirstBackend(l) ==
    IF l.ocr_reader # None /\ l.EASYOCR_AVAILABLE THEN "easyocr"
    ELSE IF l.TESSERACT_AVAILABLE THEN "tesseract"
    ELSE "none"

\* what the first backend did, and what the Tesseract call after it did
FirstOutcome(l, backends) ==
    IF FirstBackend(l) = "easyocr"
    THEN [exc |-> backends.readtext.exc, val |-> JoinSpace(backends.readtext.val)]
    ELSE backends.tesseract[1]

FallbackOutcome(l, backends) ==
    IF FirstBackend(l) = "easyocr" THEN backends.tesseract[1] ELSE backends.tesseract[2]

\* the text C23 states: the first backend's, else the fallback's when
\* Tesseract is available and succeeds, else the empty string
StatedOcrText(l, backends) ==
    IF FirstBackend(l) = "none" THEN ""
    ELSE IF FirstOutcome(l, backends).exc = "none" THEN FirstOutcome(l, backends).val
    ELSE IF l.TESSERACT_AVAILABLE /\ FallbackOutcome(l, backends).exc = "none"
    THEN FallbackOutcome(l, backends).val
    ELSE ""

\* C23: extract_ocr always returns a string and never raises, whichever OCR
\* backends are available and whichever of them fail: when the first backend
\* raises it falls back to Tesseract if available, and it returns the empty
\* string when no backend succeeds.
C23_OcrNeverRaises ==
    OcrExtracted =>
        /\ raised = "none"
        /\ ret # None
        /\ ret[1] \in STRING
        /\ ret[1] = StatedOcrText(loader[1], args[1])

\* EasyOCR raised, the Tesseract call after it raised too, and the empty
\* string was returned
C23_Witness ==
    /\ OcrExtracted
    /\ loader[1].ocr_reader # None /\ loader[1].TESSERACT_AVAILABLE
    /\ args[1].readtext.exc # "none"
    /\ args[1].tesseract[1].exc # "none"
    /\ raised = "none"
    /\ ret = Some("")


\* C24: in every SkillAnalysis with non-empty job skills, missing_skills is
\* empty if and only if coverage_percentage is 100; equivalently the coverage
\* is 100 * (total_job_skills - len(missing_skills)) / total_job_skills, also
\* when two job skills normalize to the same string or one is listed twice.
C24_MissingIffCovered ==
    (SkillsAnalyzed /\ args[1].job_skills # <<>>) =>
        /\ (ret[1].missing_skills = <<>>) <=> (ret[1].coverage_percentage = F(100))
        /\ ret[1].coverage_percentage =
              PercentOf(ret[1].total_job_skills - Len(ret[1].missing_skills),
                        ret[1].total_job_skills)

\* three job skills that normalize to "python" are all matched by the user's
\* "python": none is missing, and the coverage is a third
C24_Witness ==
    /\ SkillsAnalyzed
    /\ args[1].user_skills = <<"python", "sql">>
    /\ args[1].job_skills = <<"Python", "python", "PYTHON!">>
    /\ ret[1].missing_skills = <<>>
    /\ ret[1].coverage_percentage = PercentOf(1, 3)


\* C25: in every SkillAnalysis overall_match_score * 100 is at most
\* coverage_percentage: a job skill matched by several user skills counts
\* once, so that an overall_match_score of 1.0 with non-empty job skills means
\* that no job skill is missing.
C25_OverallWithinCoverage ==
    SkillsAnalyzed =>
        /\ FLe(FMul(ret[1].overall_match_score, F(100)), ret[1].coverage_percentage)
        /\ (args[1].job_skills # <<>> /\ ret[1].overall_match_score = F(1)) =>
              ret[1].missing_skills = <<>>

\* four user names of python against python, sql, aws: the one job skill is
\* counted four times, the overall score is 1.0, and two skills are missing
C25_Witness ==
    /\ SkillsAnalyzed
    /\ args[1].user_skills = <<"python", "py", "python3", "python2">>
    /\ args[1].job_skills = <<"python", "sql", "aws">>
    /\ Len(ret[1].matched_skills) = 4
    /\ ret[1].overall_match_score = F(1)
    /\ ret[1].coverage_percentage = PercentOf(1, 3)
    /\ ret[1].missing_skills = <<"sql", "aws">>


\* the synonym table's literal lists s as an alias of the main skill m
WrittenAlias(m, s) ==
    \E i \in 1..Len(synonyms) : synonyms[i].main = m /\ s \in synonyms[i].syns

\* C26: every alias pair written in the synonym table is matched: for each
\* main skill m and each alias s listed for it, match_single_skill(m, [s])
\* and match_single_skill(s, [m]) each return a match with a score of at
\* least 0.95.
C26_AliasesMatch ==
    (SkillMatched /\ (\/ WrittenAlias(args[1].user_skill, args[1].job_skill)
                      \/ WrittenAlias(args[1].job_skill, args[1].user_skill))) =>
        /\ Len(ret[1]) = 1
        /\ FLe(Lit(95, 100), ret[1][1].match_score)

\* "react.js" is written as an alias of "react", and matching the one
\* against the other returns nothing
C26_Witness ==
    /\ SkillMatched
    /\ args[1].user_skill = "react" /\ args[1].job_skill = "react.js"
    /\ WrittenAlias("react", "react.js")
    /\ ret[1] = <<>>


SkillNormalized == op = "normalize_skill"

\* the punctuation that normalize_skill removes: every character but letters,
\* digits, the underscore, whitespace and + # .
WithoutPunctuation(s) == RemoveSpecial(s)

\* C27: normalize_skill is idempotent: normalize_skill(normalize_skill(s)) =
\* normalize_skill(s) for every skill string s, with punctuation next to
\* whitespace and with the abbreviations js, ml, ai; hence two skills that
\* differ only in removed punctuation normalize to the same string and match
\* as exact.
C27_NormalizeIdempotent ==
    /\ SkillNormalized => normalize_skill(ret[1]) = ret[1]
    /\ (SkillMatched /\ WithoutPunctuation(args[1].user_skill)
                           = WithoutPunctuation(args[1].job_skill)) =>
          /\ normalize_skill(args[1].user_skill) = normalize_skill(args[1].job_skill)
          /\ Len(ret[1]) = 1
          /\ ret[1][1].match_type = "exact"

\* "python !" has been normalized to "python " with the space left in, which
\* normalizes on to "python"
C27_Witness ==
    /\ SkillNormalized
    /\ args = Some("python !")
    /\ ret = Some("python ")
    /\ normalize_skill("python ") = "python"



InsightReturned == op = "get_company_insight"

\* the insight that call i returned has the field values it was returned with
InsightKept(database, i) == database[insights[i].entry] = insights[i].returned

\* C28: get_company_insight leaves company_database unchanged for every
\* company name, and an insight returned by an earlier call keeps its field
\* values, company_name among them, after any later calls for other companies:
\* no call of get_company_insight changes the database or an insight that an
\* earlier call returned.
C28_InsightFrame ==
    [][(op' = "get_company_insight") =>
          /\ company_database' = company_database
          /\ \A i \in 1..Len(insights) :
                InsightKept(company_database, i) => InsightKept(company_database', i)]_vars

\* the insight returned for "Acme" is named "Globex" after the call for "Globex"
C28_Witness ==
    /\ InsightReturned
    /\ Len(insights) = 2
    /\ insights[1].returned.company_name = "Acme"
    /\ args = Some("Globex")
    /\ company_database[insights[1].entry].company_name = "Globex"



\* C29: for every top_k <= 0, recommend_jobs returns the empty list; for no
\* integer top_k does it return more than max(top_k, 0) recommendations.
C29_TopKBound ==
    (op = "recommend_jobs" /\ top_k # None /\ raised = "none") =>
        /\ (top_k[1] <= 0 => recs = <<>>)
        /\ Len(recs) <= Max2(top_k[1], 0)

\* recommend_jobs with top_k = -1 has returned two of three jobs
C29_Witness ==
    /\ op = "recommend_jobs"
    /\ top_k = Some(0 - 1)
    /\ raised = "none"
    /\ Len(jobs) = 3
    /\ Len(recs) = 2



\* the step from one analysis to the analysis with one more user skill
SkillAdded ==
    /\ op = "analyze_skill_compatibility"
    /\ op' = "analyze_skill_compatibility"
    /\ args'[1].job_skills = args[1].job_skills
    /\ Len(args'[1].user_skills) = Len(args[1].user_skills) + 1

\* every entry of the list a is an entry of the list b, as often at least
ListWithin(a, b) == \A i \in 1..Len(a) : Count(a, a[i]) <= Count(b, a[i])

NeverLowers(before, after) ==
    /\ FLe(before.coverage_percentage, after.coverage_percentage)
    /\ FLe(before.overall_match_score, after.overall_match_score)
    /\ ListWithin(after.missing_skills, before.missing_skills)
    /\ FLe(SkillScoreOf(before).skill_score, SkillScoreOf(after).skill_score)

\* C30: skill analysis is monotone in the user's skills: for fixed job skills,
\* adding a skill to the user skill list never lowers coverage_percentage or
\* overall_match_score, never adds an entry to missing_skills, and never
\* lowers the skill score.
C30_MonotoneInUserSkills == [][SkillAdded => NeverLowers(ret[1], ret'[1])]_vars

\* "js" has been put in front of the user's ["python", "js"] for a job that
\* asks for pythonic, javascript and node.js: the match records now come in
\* another order, and their sum, and with it overall_match_score, is lower
C30_Witness ==
    /\ SkillsAnalyzed
    /\ args = Some([user_skills |-> <<"js", "python", "js">>,
                    job_skills |-> <<"pythonic", "javascript", "node.js">>,
                    added |-> Some("js")])
    /\ LET before == analyze_skill_compatibility(<<"python", "js">>, args[1].job_skills)
       IN  /\ Len(ret[1].matched_skills) = Len(before.matched_skills)
           /\ ret[1].coverage_percentage = before.coverage_percentage
           /\ FLt(ret[1].overall_match_score, before.overall_match_score)

====
